---- MODULE Spec2Model ----
(***************************************************************************)
(* Order placement, matching, settlement and cancellation of the limit     *)
(* order book (usecase/, repository/, entity/), over a relational store    *)
(* with transactions.                                                      *)
(*                                                                         *)
(* Every HTTP request runs in its own goroutine, so the handlers are       *)
(* processes; every SQL statement a handler issues is one atomic step.     *)
(* db.Begin() is called without options, so a transaction has the store's  *)
(* default isolation (PostgreSQL: READ COMMITTED): a statement reads the   *)
(* rows committed so far plus the transaction's own writes, an UPDATE      *)
(* takes the row's lock until commit/rollback and waits for a lock held by *)
(* another transaction, then acts on the row as last committed.            *)
(*                                                                         *)
(* Decimals are integers here (prices and quantities in whole units).      *)
(* A string that the code splits is a sequence of one-character strings.   *)
(***************************************************************************)
EXTENDS Integers, Sequences, FiniteSets, TLC

(* ------------------------------ bounds --------------------------------- *)
\* number of rows of table "order" (committed or not)
MaxOrders == 3
\* number of requests that may begin while another request is in flight
MaxOverlap == 1
\* number of orders clients cancel
MaxCancelled == 1

(* --------------------------- program constants ------------------------- *)
MaxQuantity == 1000
MaxPrice == 100000000

OrderTypeBuy == "BUY"
OrderTypeSell == "SELL"
OrderStatusOpen == "OPEN"
OrderStatusFilled == "FILLED"
OrderStatusPartial == "PARTIALLY_FILLED"
OrderStatusCancelled == "CANCELLED"

Nil == "nil"
ErrInvalidPrice == "price must be greater than zero"
ErrInvalidQuantity == "quantity must be greater than zero"
ErrInvalidOrderType == "invalid order type"
ErrInvalidPairFormat == "invalid instrument pair format"
ErrMaxQuantity == "quantity exceeds maximum limit"
ErrMaxPrice == "price exceeds maximum limit"
ErrWalletNotFound == "wallet not found for required asset"
ErrInsufficientBalance == "insufficient balance"
ErrUpdateBalance == "insufficient balance or wallet not found"
\* any error the store itself reports (connection loss, deadlock victim, ...)
ErrDB == "db error"

(* ------------------------------ inputs --------------------------------- *)
ProcSeq == <<"p1", "p2">>
Procs == {ProcSeq[i] : i \in DOMAIN ProcSeq}
Accounts == {"a1", "a2", "a3"}
BTC == <<"B">>
BRL == <<"R">>
Assets == {BTC, BRL}
BTC_BRL == <<"B", "_", "R">>
Pairs == {BTC_BRL}
Sides == {OrderTypeBuy, OrderTypeSell}
Prices == {99, 100}
\* each account posts orders of one size
OrderSize == ("a1" :> 1) @@ ("a2" :> 2) @@ ("a3" :> 1)
OrderIds == 1..(MaxOrders + MaxOverlap)
\* ids (and arrival times) of the orders of a book that rests before the run
BookIds == {-2, -1, 0}

\* the wallet table the store is seeded with (as scripts/seed.go does): both
\* assets for a1 and a2; a3 has no wallet for the base asset, which the schema
\* allows
Seed == (<<"a1", BTC>> :> 1) @@ (<<"a1", BRL>> :> 200)
          @@ (<<"a2", BTC>> :> 2) @@ (<<"a2", BRL>> :> 200)
          @@ (<<"a3", BRL>> :> 200)

(* ------------------------------- state --------------------------------- *)
VARIABLES
    orders,          \* committed rows of table "order": id -> row
    wallets,         \* committed rows of table wallet: <<account, asset>> -> balance
    trades,          \* committed rows of table trade, in insertion order
    overlaps,        \* requests begun so far while another one was in flight
    pc,              \* per request goroutine: where the handler stands
    order,           \* CreateOrder's *entity.Order (the taker object in memory)
    matchingOrders,  \* matchOrder's fetched []*entity.Order (objects in memory)
    idx,             \* matchOrder's loop position in matchingOrders (1-based)
    qty,             \* matchOrder's qty of the current Execute call
    txState,         \* the *gorm.DB transaction of CreateOrder: none/open/committed/rolledback
    txOrders,        \* uncommitted order rows written by the transaction (rows locked by it)
    txWallets,       \* uncommitted wallet balances written by the transaction
    txTrades,        \* uncommitted trade rows inserted by the transaction
    ret,             \* error value the use case returned (Nil = no error)
    ops,             \* wallet repository calls of the current settle(), in call order
    cancelId,        \* CancelOrder's id argument
    result,          \* a query use case's call, argument, fetched orders and returned value
    unit             \* the step of the DECIMAL(20,8) columns: they hold the multiples of
                     \* unit (1 in the runs whose amounts the columns hold as they are)

vars == <<orders, wallets, trades, overlaps, pc, order, matchingOrders, idx, qty,
          txState, txOrders, txWallets, txTrades, ret, ops, cancelId, result, unit>>

db == <<orders, wallets, trades>>

EmptyFn == [x \in {} |-> 0]

\* no query use case has returned to this handler (fetched: the orders its
\* repository call handed it; value: the pointer it returned, <<>> for nil and
\* <<x>> for a pointer to x)
NoResult == [call |-> "", arg |-> <<>>, fetched |-> <<>>, value |-> <<>>]

\* A value stored into a DECIMAL(20,8) column: PostgreSQL rounds what has more
\* fractional digits than the column to the column's scale, ties away from zero.
Numeric(x) ==
    LET a == IF x < 0 THEN 0 - x ELSE x
        r == ((a + a + unit) \div (unit + unit)) * unit
    IN IF x < 0 THEN 0 - r ELSE r

\* the row an INSERT or UPDATE of table "order" leaves: price, quantity and
\* remaining_quantity are DECIMAL(20,8) columns
OrderColumns(row) ==
    [row EXCEPT !.price = Numeric(@), !.quantity = Numeric(@),
                !.remaining_quantity = Numeric(@)]

\* the row an INSERT into table trade leaves: price and quantity are
\* DECIMAL(20,8) columns
TradeColumns(row) == [row EXCEPT !.price = Numeric(@), !.quantity = Numeric(@)]

NoOrder == [id |-> 0, account_id |-> "", instrument_pair |-> <<>>, order_type |-> "",
            price |-> 0, quantity |-> 0, remaining_quantity |-> 0, status |-> "",
            created_at |-> 0]

(* ------------------------- entity/order.go ----------------------------- *)
RECURSIVE SplitFrom(_, _, _, _)
SplitFrom(s, sep, i, cur) ==
    IF i > Len(s) THEN <<cur>>
    ELSE IF s[i] = sep THEN <<cur>> \o SplitFrom(s, sep, i + 1, <<>>)
    ELSE SplitFrom(s, sep, i + 1, Append(cur, s[i]))

\* strings.Split(s, sep) for a one-character separator
Split(s, sep) == SplitFrom(s, sep, 1, <<>>)

\* a pair check that only asks for a first part
IsValidInstrumentPairFirstPart(pair) ==
    LET assets == Split(pair, "_")
    IN assets[1] # <<>>

IsValidInstrumentPair(pair) ==
    LET assets == Split(pair, "_")
    IN Len(assets) = 2 /\ assets[1] # <<>> /\ assets[2] # <<>>

\* a Validate that looks at the price's upper bound before the quantity
ValidateMaxPriceFirst(o) ==
    IF o.price <= 0 THEN ErrInvalidPrice
    ELSE IF o.price > MaxPrice THEN ErrMaxPrice
    ELSE IF o.quantity <= 0 THEN ErrInvalidQuantity
    ELSE IF o.quantity > MaxQuantity THEN ErrMaxQuantity
    ELSE IF o.order_type # OrderTypeBuy /\ o.order_type # OrderTypeSell THEN ErrInvalidOrderType
    ELSE IF ~IsValidInstrumentPair(o.instrument_pair) THEN ErrInvalidPairFormat
    ELSE Nil

Validate(o) ==
    IF o.price <= 0 THEN ErrInvalidPrice
    ELSE IF o.quantity <= 0 THEN ErrInvalidQuantity
    ELSE IF o.quantity > MaxQuantity THEN ErrMaxQuantity
    ELSE IF o.price > MaxPrice THEN ErrMaxPrice
    ELSE IF o.order_type # OrderTypeBuy /\ o.order_type # OrderTypeSell THEN ErrInvalidOrderType
    ELSE IF ~IsValidInstrumentPair(o.instrument_pair) THEN ErrInvalidPairFormat
    ELSE Nil

\* coverage taken in the asset the order receives
GetRequiredAssetAndAmountSwapped(o) ==
    LET assets == Split(o.instrument_pair, "_")
    IN IF o.order_type = OrderTypeBuy
       THEN <<assets[1], o.quantity>>
       ELSE <<assets[2], o.price * o.quantity>>

\* <<asset, amount>>
GetRequiredAssetAndAmount(o) ==
    LET assets == Split(o.instrument_pair, "_")
    IN IF o.order_type = OrderTypeBuy
       THEN <<assets[2], o.price * o.quantity>>
       ELSE <<assets[1], o.quantity>>

(* --------------------- the store, as a transaction sees it ------------- *)
\* rows a statement of transaction p reads: committed rows and p's own writes
OrderRows(p) == txOrders[p] @@ orders
WalletRows(p) == txWallets[p] @@ wallets

\* a row some other open transaction has written is locked: an UPDATE waits
OrderLocked(p, id) == \E q \in Procs \ {p} : id \in DOMAIN txOrders[q]
WalletLocked(p, k) == \E q \in Procs \ {p} : k \in DOMAIN txWallets[q]


(* --------------------- repository/wallet_repository.go ----------------- *)
NilTx == "nil tx"
RootDB == "r.db"

\* order statements that forget the caller's transaction
orderDBWithoutTx(tx) == RootDB

\* the handle an order statement runs on: db := r.db; if tx != nil { db = tx }
\* (Create, UpdateRemainingAndStatus and GetMatchingOrders each pick it so).
\* The wallet statements of these paths (GetByAccountAndAsset, updateBalance)
\* and the trade insert run on tx itself.
orderDB(tx) == IF tx # NilTx THEN tx ELSE RootDB

\* rows a statement on handle h reads
OrderRowsOn(h) == IF h = RootDB THEN orders ELSE OrderRows(h)

\* GetByAccountAndAsset: the wallet row, or Nil when there is none
GetByAccountAndAsset(rows, accountID, assetSymbol) ==
    IF <<accountID, assetSymbol>> \in DOMAIN rows
    THEN [found |-> TRUE, balance |-> rows[<<accountID, assetSymbol>>]]
    ELSE [found |-> FALSE, balance |-> 0]

\* updateBalance: UPDATE wallet SET balance = balance +/- amount WHERE account, asset.
\* No row matched: the error; otherwise the new balance as the column holds it,
\* whatever its sign (the statement has no balance condition and the table no CHECK).
updateBalance(rows, accountID, assetSymbol, amount, isAdd) ==
    LET k == <<accountID, assetSymbol>>
    IN IF k \notin DOMAIN rows
       THEN [err |-> ErrUpdateBalance, balance |-> 0]
       ELSE [err |-> Nil,
             balance |-> Numeric(IF isAdd THEN rows[k] + amount ELSE rows[k] - amount)]

SubtractFromBalance(rows, accountID, assetSymbol, amount) ==
    updateBalance(rows, accountID, assetSymbol, amount, FALSE)

AddToBalance(rows, accountID, assetSymbol, amount) ==
    updateBalance(rows, accountID, assetSymbol, amount, TRUE)

(* --------------------- repository/order_repository.go ------------------ *)
\* an ORDER BY whose second key is created_at DESC
OrderedBeforeNewestFirst(x, y, isBuyOrder) ==
    IF x.price # y.price
    THEN (IF isBuyOrder THEN x.price < y.price ELSE x.price > y.price)
    ELSE x.created_at >= y.created_at

\* an ORDER BY whose first key runs the other way
OrderedBeforeWorstPrice(x, y, isBuyOrder) ==
    IF x.price # y.price
    THEN (IF isBuyOrder THEN x.price > y.price ELSE x.price < y.price)
    ELSE x.created_at <= y.created_at

\* ORDER BY price ASC|DESC, created_at ASC: x is placed no later than y
OrderedBefore(x, y, isBuyOrder) ==
    IF x.price # y.price
    THEN (IF isBuyOrder THEN x.price < y.price ELSE x.price > y.price)
    ELSE x.created_at <= y.created_at

RECURSIVE OrderBy(_, _)
OrderBy(S, isBuyOrder) ==
    IF S = {} THEN <<>>
    ELSE LET first == CHOOSE x \in S : \A y \in S : OrderedBefore(x, y, isBuyOrder)
         IN <<first>> \o OrderBy(S \ {first}, isBuyOrder)

\* a WHERE clause without account_id <> ?
MatchingWhereAnyAccount(o, accountID, instrumentPair, orderType, price, isBuyOrder) ==
    /\ o.instrument_pair = instrumentPair
    /\ o.order_type = orderType
    /\ o.status \in {OrderStatusOpen, OrderStatusPartial}
    /\ IF isBuyOrder THEN o.price <= price ELSE o.price >= price

\* a WHERE clause without the price bound
MatchingWhereAnyPrice(o, accountID, instrumentPair, orderType, price, isBuyOrder) ==
    /\ o.instrument_pair = instrumentPair
    /\ o.order_type = orderType
    /\ o.status \in {OrderStatusOpen, OrderStatusPartial}
    /\ o.account_id # accountID

\* WHERE instrument_pair = ? AND order_type = ? AND status IN (OPEN, PARTIALLY_FILLED)
\*   AND account_id <> ? AND price <=|>= ?
MatchingWhere(o, accountID, instrumentPair, orderType, price, isBuyOrder) ==
    /\ o.instrument_pair = instrumentPair
    /\ o.order_type = orderType
    /\ o.status \in {OrderStatusOpen, OrderStatusPartial}
    /\ o.account_id # accountID
    /\ IF isBuyOrder THEN o.price <= price ELSE o.price >= price

GetMatchingOrders(rows, accountID, instrumentPair, orderType, price, isBuyOrder) ==
    OrderBy({rows[id] : id \in {i \in DOMAIN rows :
                MatchingWhere(rows[i], accountID, instrumentPair, orderType, price, isBuyOrder)}},
            isBuyOrder)

\* a GetByID that drops its status filter
GetByIDAnyStatus(rows, id, status) ==
    IF id \in DOMAIN rows
    THEN [found |-> TRUE, row |-> rows[id]]
    ELSE [found |-> FALSE, row |-> NoOrder]

\* GetByID(id, status...): the row with that id and one of the statuses, if any
GetByID(rows, id, status) ==
    IF id \in DOMAIN rows /\ rows[id].status \in status
    THEN [found |-> TRUE, row |-> rows[id]]
    ELSE [found |-> FALSE, row |-> NoOrder]

(* ------------------------ usecase/trade_executor.go -------------------- *)
Min(a, b) == IF a < b THEN a ELSE b

\* a trade priced at the taker's limit
NewTradeAtTakerPrice(o, matchingOrder, q) ==
    [buyer_order_id |-> IF o.order_type = OrderTypeSell THEN matchingOrder.id ELSE o.id,
     seller_order_id |-> IF o.order_type = OrderTypeSell THEN o.id ELSE matchingOrder.id,
     price |-> o.price,
     quantity |-> q]

\* a trade row that carries the taker's whole quantity
NewTradeWholeQuantity(o, matchingOrder, q) ==
    [buyer_order_id |-> IF o.order_type = OrderTypeSell THEN matchingOrder.id ELSE o.id,
     seller_order_id |-> IF o.order_type = OrderTypeSell THEN o.id ELSE matchingOrder.id,
     price |-> matchingOrder.price,
     quantity |-> o.quantity]

\* a trade row that names the taker as the buyer, whatever its type
NewTradeTakerBuys(o, matchingOrder, q) ==
    [buyer_order_id |-> o.id,
     seller_order_id |-> matchingOrder.id,
     price |-> matchingOrder.price,
     quantity |-> q]

\* Execute: the trade row built from the taker (order) and the maker (matchingOrder)
NewTrade(o, matchingOrder, q) ==
    [buyer_order_id |-> IF o.order_type = OrderTypeSell THEN matchingOrder.id ELSE o.id,
     seller_order_id |-> IF o.order_type = OrderTypeSell THEN o.id ELSE matchingOrder.id,
     price |-> matchingOrder.price,
     quantity |-> q]

\* an updateOrderStatus without its FILLED case
NewStatusNeverFilled(o) ==
    IF o.remaining_quantity = o.quantity THEN OrderStatusOpen ELSE OrderStatusPartial

\* an updateOrderStatus that calls every touched order FILLED
NewStatusFilledWhenTouched(o) ==
    IF o.remaining_quantity = o.quantity THEN OrderStatusOpen ELSE OrderStatusFilled

\* updateOrderStatus: the status for the order's remaining quantity
NewStatus(o) ==
    IF o.remaining_quantity = 0 THEN OrderStatusFilled
    ELSE IF o.remaining_quantity = o.quantity THEN OrderStatusOpen
    ELSE OrderStatusPartial

\* a settle that moves the quote asset before the base asset
SettleCallsQuoteFirst(o, matchingOrder, q) ==
    LET parts == Split(o.instrument_pair, "_")
        buyer == IF o.order_type = OrderTypeSell THEN matchingOrder ELSE o
        seller == IF o.order_type = OrderTypeSell THEN o ELSE matchingOrder
        total == matchingOrder.price * q
    IN << [isAdd |-> FALSE, account |-> buyer.account_id, asset |-> parts[2], amount |-> total],
          [isAdd |-> TRUE, account |-> seller.account_id, asset |-> parts[2], amount |-> total],
          [isAdd |-> FALSE, account |-> seller.account_id, asset |-> parts[1], amount |-> q],
          [isAdd |-> TRUE, account |-> buyer.account_id, asset |-> parts[1], amount |-> q] >>

\* settle: the four wallet repository calls, in the order settle makes them
SettleCalls(o, matchingOrder, q) ==
    LET parts == Split(o.instrument_pair, "_")
        base == parts[1]
        quote == parts[2]
        buyer == IF o.order_type = OrderTypeSell THEN matchingOrder ELSE o
        seller == IF o.order_type = OrderTypeSell THEN o ELSE matchingOrder
        total == matchingOrder.price * q
    IN << [isAdd |-> FALSE, account |-> seller.account_id, asset |-> base, amount |-> q],
          [isAdd |-> TRUE, account |-> buyer.account_id, asset |-> base, amount |-> q],
          [isAdd |-> FALSE, account |-> buyer.account_id, asset |-> quote, amount |-> total],
          [isAdd |-> TRUE, account |-> seller.account_id, asset |-> quote, amount |-> total] >>


(* --------------------------- usecase/order_usecase.go ------------------ *)
TypeOK ==
    /\ pc \in [Procs -> {"idle", "checkWalletBalance", "Create", "GetMatchingOrders",
                         "Execute", "updateOrder", "updateMatching", "settle",
                         "Commit", "UpdateStatus", "done"}]
    /\ txState \in [Procs -> {"none", "open", "committed", "rolledback"}]
    /\ overlaps \in 0..MaxOverlap
    /\ DOMAIN orders \subseteq OrderIds \cup BookIds
    /\ DOMAIN wallets \subseteq Accounts \X Assets
    /\ unit >= 1

Init ==
    /\ orders = EmptyFn
    /\ wallets = Seed
    /\ trades = <<>>
    /\ overlaps = 0
    /\ pc = [p \in Procs |-> "idle"]
    /\ order = [p \in Procs |-> NoOrder]
    /\ matchingOrders = [p \in Procs |-> <<>>]
    /\ idx = [p \in Procs |-> 0]
    /\ qty = [p \in Procs |-> 0]
    /\ txState = [p \in Procs |-> "none"]
    /\ txOrders = [p \in Procs |-> EmptyFn]
    /\ txWallets = [p \in Procs |-> EmptyFn]
    /\ txTrades = [p \in Procs |-> <<>>]
    /\ ret = [p \in Procs |-> Nil]
    /\ ops = [p \in Procs |-> <<>>]
    /\ cancelId = [p \in Procs |-> 0]
    /\ result = [p \in Procs |-> NoResult]
    /\ unit = 1

\* A handler that has its result answers before anything else happens: the
\* answer touches no shared state, so its place among the other goroutines'
\* statements makes no difference.
Answered == \A q \in Procs : pc[q] # "done"

\* goroutine p is about to run the statement at loc
At(p, loc) == Answered /\ pc[p] = loc

\* a return that drops the error
ReturnNil(p, err) ==
    /\ pc' = [pc EXCEPT ![p] = "done"]
    /\ ret' = [ret EXCEPT ![p] = Nil]
    /\ matchingOrders' = [matchingOrders EXCEPT ![p] = <<>>]
    /\ idx' = [idx EXCEPT ![p] = 0]
    /\ qty' = [qty EXCEPT ![p] = 0]

\* the use case returns err to the handler; matchOrder's locals are gone
Return(p, err) ==
    /\ pc' = [pc EXCEPT ![p] = "done"]
    /\ ret' = [ret EXCEPT ![p] = err]
    /\ matchingOrders' = [matchingOrders EXCEPT ![p] = <<>>]
    /\ idx' = [idx EXCEPT ![p] = 0]
    /\ qty' = [qty EXCEPT ![p] = 0]

\* tx.Rollback(): the transaction's writes are discarded, its locks released
Rollback(p) ==
    /\ txState' = [txState EXCEPT ![p] = "rolledback"]
    /\ txOrders' = [txOrders EXCEPT ![p] = EmptyFn]
    /\ txWallets' = [txWallets EXCEPT ![p] = EmptyFn]
    /\ txTrades' = [txTrades EXCEPT ![p] = <<>>]

\* CreateOrder's error path once the transaction is in use: tx.Rollback(); return err
RollbackAndReturn(p, err) ==
    /\ Rollback(p)
    /\ Return(p, err)

\* order rows a running CreateOrder has yet to insert
Pending == Cardinality({q \in Procs : pc[q] \in {"checkWalletBalance", "Create"}})

\* ids of all order rows, committed or not
AllOrderIds == DOMAIN orders \cup UNION {DOMAIN txOrders[q] : q \in Procs}

\* ids of the order rows inserted in this run
Placed == {i \in AllOrderIds : i \in OrderIds}

\* BeforeCreate's uuid.New() and autoCreateTime's time.Now(): a fresh id, and a
\* creation time later than that of every row inserted before (the one number
\* serves as both)
NextId == IF AllOrderIds = {} THEN 1
          ELSE 1 + (CHOOSE i \in AllOrderIds : \A j \in AllOrderIds : j <= i)

\* net/http starts one goroutine per request; which of the idle ones is
\* immaterial, so a request is taken by the first idle one. A request that
\* begins while another one is in flight counts as an overlap; only requests
\* that go on to a second statement (goesOn) are begun then: one that ends
\* with its first statement writes nothing and reads what it would have read
\* before the other request began.
Accept(p, goesOn) ==
    /\ Answered
    /\ \E i \in DOMAIN ProcSeq :
          /\ ProcSeq[i] = p
          /\ pc[p] = "idle"
          /\ \A j \in 1..(i - 1) : pc[ProcSeq[j]] # "idle"
    /\ IF \E q \in Procs : pc[q] # "idle"
       THEN goesOn /\ overlaps < MaxOverlap /\ overlaps' = overlaps + 1
       ELSE UNCHANGED overlaps

\* CreateOrder, lines 48-58: tx := u.db.Begin(); order.Validate()
CreateOrder(p, o) ==
    /\ Accept(p, Validate(o) = Nil)
    /\ Cardinality(Placed) + Pending < MaxOrders
    /\ order' = [order EXCEPT ![p] = o]
    /\ txState' = [txState EXCEPT ![p] = "open"]
    /\ IF Validate(o) # Nil
       THEN Return(p, Validate(o))
       ELSE /\ pc' = [pc EXCEPT ![p] = "checkWalletBalance"]
            /\ UNCHANGED <<ret, matchingOrders, idx, qty>>
    /\ UNCHANGED <<unit, result, db, txOrders, txWallets, txTrades, ops, cancelId>>

\* a comparison that also rejects a balance equal to the amount
LessThanOrEqual(balance, amount) == balance <= amount

\* decimal.Decimal.LessThan
LessThan(balance, amount) == balance < amount

\* checkWalletBalance (one SELECT in the transaction), then lines 60-63
CheckWalletBalance(p) ==
    /\ At(p, "checkWalletBalance")
    /\ LET required == GetRequiredAssetAndAmount(order[p])
           wallet == GetByAccountAndAsset(WalletRows(p), order[p].account_id, required[1])
       IN \/ /\ wallet.found
             /\ ~LessThan(wallet.balance, required[2])
             /\ pc' = [pc EXCEPT ![p] = "Create"]
             /\ UNCHANGED <<ret, txState, txOrders, txWallets, txTrades,
                            matchingOrders, idx, qty>>
          \/ /\ ~wallet.found
             /\ RollbackAndReturn(p, ErrWalletNotFound)
          \/ /\ wallet.found
             /\ LessThan(wallet.balance, required[2])
             /\ RollbackAndReturn(p, ErrInsufficientBalance)
          \/ RollbackAndReturn(p, ErrDB)
    /\ UNCHANGED <<unit, result, db, overlaps, order, ops, cancelId>>

\* an UPDATE that leaves the status column of an existing row as it is
WriteOrderKeepsStatus(h, id, row) ==
    LET kept == IF id \in DOMAIN OrderRowsOn(h)
                THEN [OrderColumns(row) EXCEPT !.status = OrderRowsOn(h)[id].status]
                ELSE OrderColumns(row)
    IN IF h = RootDB
       THEN orders' = (id :> kept) @@ orders /\ UNCHANGED txOrders
       ELSE txOrders' = [txOrders EXCEPT ![h] = (id :> kept) @@ @] /\ UNCHANGED orders

\* a statement on handle h writes order row id: into the transaction, or
\* straight into the table when h is r.db
WriteOrder(h, id, row) ==
    IF h = RootDB
    THEN orders' = (id :> OrderColumns(row)) @@ orders /\ UNCHANGED txOrders
    ELSE /\ txOrders' = [txOrders EXCEPT ![h] = (id :> OrderColumns(row)) @@ @]
         /\ UNCHANGED orders

\* a statement of transaction tx writes wallet row k
WriteWallet(tx, k, balance) ==
    /\ txWallets' = [txWallets EXCEPT ![tx] = (k :> balance) @@ @]
    /\ UNCHANGED wallets

\* lines 65-71: status OPEN, remaining = quantity, orderRepository.Create(tx, order)
\* (BeforeCreate gives the id, autoCreateTime the created_at)
Create(p) ==
    /\ At(p, "Create")
    /\ \/ LET o == [order[p] EXCEPT !.status = OrderStatusOpen,
                                     !.remaining_quantity = order[p].quantity,
                                     !.id = NextId,
                                     !.created_at = NextId]
          IN /\ order' = [order EXCEPT ![p] = o]
             /\ WriteOrder(orderDB(p), o.id, o)
             /\ pc' = [pc EXCEPT ![p] = "GetMatchingOrders"]
             /\ UNCHANGED <<wallets, trades, ret, txState, txWallets, txTrades,
                            matchingOrders, idx, qty>>
       \/ /\ order' = [order EXCEPT ![p].status = OrderStatusOpen,
                                    ![p].remaining_quantity = order[p].quantity]
          /\ RollbackAndReturn(p, ErrDB)
          /\ UNCHANGED db
    /\ UNCHANGED <<unit, result, overlaps, ops, cancelId>>

\* matchOrder, lines 88-106: the matching query; no maker: CreateOrder commits
MatchOrder(p) ==
    /\ At(p, "GetMatchingOrders")
    /\ LET o == order[p]
           oppositeOrderType == IF o.order_type = OrderTypeSell THEN OrderTypeBuy
                                ELSE OrderTypeSell
           found == GetMatchingOrders(OrderRowsOn(orderDB(p)), o.account_id,
                                      o.instrument_pair, oppositeOrderType, o.price,
                                      o.order_type = OrderTypeBuy)
       IN \/ /\ Len(found) = 0
             /\ pc' = [pc EXCEPT ![p] = "Commit"]
             /\ UNCHANGED <<matchingOrders, idx, qty, ret, txState, txOrders, txWallets,
                            txTrades>>
          \/ /\ Len(found) > 0
             /\ matchingOrders' = [matchingOrders EXCEPT ![p] = found]
             /\ idx' = [idx EXCEPT ![p] = 1]
             /\ pc' = [pc EXCEPT ![p] = "Execute"]
             /\ UNCHANGED <<qty, ret, txState, txOrders, txWallets, txTrades>>
          \/ RollbackAndReturn(p, ErrDB)
    /\ UNCHANGED <<unit, result, db, overlaps, order, ops, cancelId>>


\* matchOrder line 109 and Execute lines 30-47: qty, the trade insert (on tx
\* itself), then both objects' remaining quantity is reduced in memory
Execute(p) ==
    /\ At(p, "Execute")
    /\ LET o == order[p]
           m == matchingOrders[p][idx[p]]
           q == Min(o.remaining_quantity, m.remaining_quantity)
       IN /\ ops' = [ops EXCEPT ![p] = <<>>]
          /\ \/ /\ qty' = [qty EXCEPT ![p] = q]
                /\ txTrades' = [txTrades EXCEPT
                                  ![p] = Append(@, TradeColumns(NewTrade(o, m, q)))]
                /\ order' = [order EXCEPT ![p].remaining_quantity = @ - q]
                /\ matchingOrders' = [matchingOrders EXCEPT
                                        ![p][idx[p]].remaining_quantity = @ - q]
                /\ pc' = [pc EXCEPT ![p] = "updateOrder"]
                /\ UNCHANGED <<idx, ret, txState, txOrders, txWallets>>
             \/ /\ RollbackAndReturn(p, ErrDB)
                /\ UNCHANGED order
    /\ UNCHANGED <<unit, result, db, overlaps, cancelId>>

\* UpdateRemainingAndStatus: UPDATE "order" SET remaining_quantity, status WHERE id.
\* It waits while another transaction holds the row; a missing row is no error.
UpdateRemainingAndStatus(h, id, quantity, status) ==
    /\ ~OrderLocked(h, id)
    /\ IF id \in DOMAIN OrderRowsOn(h)
       THEN WriteOrder(h, id, [OrderRowsOn(h)[id] EXCEPT !.remaining_quantity = quantity,
                                                          !.status = status])
       ELSE UNCHANGED <<orders, txOrders>>

\* an updateOrderStatus that sets o.Status before it calls the repository
UpdateOrderStatusFirst(p) ==
    /\ At(p, "updateOrder")
    /\ order' = [order EXCEPT ![p].status = NewStatus(order[p])]
    /\ \/ /\ UpdateRemainingAndStatus(orderDB(p), order[p].id,
                                      order[p].remaining_quantity, NewStatus(order[p]))
          /\ pc' = [pc EXCEPT ![p] = "updateMatching"]
          /\ UNCHANGED <<wallets, trades, ret, txState, txWallets, txTrades,
                         matchingOrders, idx, qty>>
       \/ /\ RollbackAndReturn(p, ErrDB)
          /\ UNCHANGED db
    /\ UNCHANGED <<unit, result, overlaps, ops, cancelId>>

\* Execute line 49: updateOrderStatus(tx, order)
UpdateOrder(p) ==
    /\ At(p, "updateOrder")
    /\ \/ /\ UpdateRemainingAndStatus(orderDB(p), order[p].id,
                                      order[p].remaining_quantity, NewStatus(order[p]))
          /\ order' = [order EXCEPT ![p].status = NewStatus(order[p])]
          /\ pc' = [pc EXCEPT ![p] = "updateMatching"]
          /\ UNCHANGED <<wallets, trades, ret, txState, txWallets, txTrades,
                         matchingOrders, idx, qty>>
       \/ /\ RollbackAndReturn(p, ErrDB)
          /\ UNCHANGED <<db, order>>
    /\ UNCHANGED <<unit, result, overlaps, ops, cancelId>>

\* an Execute that goes on to settle without updating the matching order
UpdateMatchingSkipped(p) ==
    /\ At(p, "updateMatching")
    /\ pc' = [pc EXCEPT ![p] = "settle"]
    /\ UNCHANGED <<unit, result, db, overlaps, order, matchingOrders, idx, qty, ret, txState,
                   txOrders, txWallets, txTrades, ops, cancelId>>

\* Execute line 52: updateOrderStatus(tx, matchingOrder)
UpdateMatching(p) ==
    /\ At(p, "updateMatching")
    /\ LET m == matchingOrders[p][idx[p]]
       IN \/ /\ UpdateRemainingAndStatus(orderDB(p), m.id, m.remaining_quantity, NewStatus(m))
             /\ matchingOrders' = [matchingOrders EXCEPT ![p][idx[p]].status = NewStatus(m)]
             /\ pc' = [pc EXCEPT ![p] = "settle"]
             /\ UNCHANGED <<wallets, trades, ret, txState, txWallets, txTrades, idx, qty>>
          \/ /\ RollbackAndReturn(p, ErrDB)
             /\ UNCHANGED db
    /\ UNCHANGED <<unit, result, overlaps, order, ops, cancelId>>

\* a matchOrder loop without its break
AfterExecuteNoBreak(p) ==
    IF idx[p] = Len(matchingOrders[p])
    THEN /\ pc' = [pc EXCEPT ![p] = "Commit"]
         /\ matchingOrders' = [matchingOrders EXCEPT ![p] = <<>>]
         /\ idx' = [idx EXCEPT ![p] = 0]
         /\ qty' = [qty EXCEPT ![p] = 0]
    ELSE /\ pc' = [pc EXCEPT ![p] = "Execute"]
         /\ idx' = [idx EXCEPT ![p] = @ + 1]
         /\ UNCHANGED <<matchingOrders, qty>>

\* matchOrder lines 113-116 after a successful Execute: break, next maker, or done
AfterExecute(p) ==
    IF order[p].remaining_quantity = 0 \/ idx[p] = Len(matchingOrders[p])
    THEN /\ pc' = [pc EXCEPT ![p] = "Commit"]
         /\ matchingOrders' = [matchingOrders EXCEPT ![p] = <<>>]
         /\ idx' = [idx EXCEPT ![p] = 0]
         /\ qty' = [qty EXCEPT ![p] = 0]
    ELSE /\ pc' = [pc EXCEPT ![p] = "Execute"]
         /\ idx' = [idx EXCEPT ![p] = @ + 1]
         /\ UNCHANGED <<matchingOrders, qty>>

\* settle: its next wallet repository call (one UPDATE); the first error ends it
Settle(p) ==
    /\ At(p, "settle")
    /\ LET call == SettleCalls(order[p], matchingOrders[p][idx[p]], qty[p])[Len(ops[p]) + 1]
           k == <<call.account, call.asset>>
           res == IF call.isAdd
                  THEN AddToBalance(WalletRows(p), call.account, call.asset, call.amount)
                  ELSE SubtractFromBalance(WalletRows(p), call.account, call.asset, call.amount)
       IN /\ ops' = [ops EXCEPT ![p] = Append(@, call)]
          /\ \/ /\ res.err = Nil
                /\ ~WalletLocked(p, k)
                /\ WriteWallet(p, k, res.balance)
                /\ IF Len(ops[p]) + 1 = 4
                   THEN AfterExecute(p)
                   ELSE UNCHANGED <<pc, matchingOrders, idx, qty>>
                /\ UNCHANGED <<orders, trades, ret, txState, txOrders, txTrades>>
             \/ /\ res.err # Nil
                /\ RollbackAndReturn(p, res.err)
                /\ UNCHANGED db
             \/ /\ RollbackAndReturn(p, ErrDB)
                /\ UNCHANGED db
    /\ UNCHANGED <<unit, result, overlaps, order, cancelId>>

\* CreateOrder line 78: return tx.Commit().Error
Commit(p) ==
    /\ At(p, "Commit")
    /\ \/ /\ orders' = txOrders[p] @@ orders
          /\ wallets' = txWallets[p] @@ wallets
          /\ trades' = trades \o txTrades[p]
          /\ txState' = [txState EXCEPT ![p] = "committed"]
          /\ txOrders' = [txOrders EXCEPT ![p] = EmptyFn]
          /\ txWallets' = [txWallets EXCEPT ![p] = EmptyFn]
          /\ txTrades' = [txTrades EXCEPT ![p] = <<>>]
          /\ Return(p, Nil)
       \/ /\ RollbackAndReturn(p, ErrDB)
          /\ UNCHANGED db
    /\ UNCHANGED <<unit, result, overlaps, order, ops, cancelId>>

\* orders cancelled, or about to be
Cancelling ==
    Cardinality({i \in DOMAIN orders : orders[i].status = OrderStatusCancelled})
    + Cardinality({q \in Procs : pc[q] = "UpdateStatus"})

\* CancelOrder lines 123-129: GetByID(id, OPEN) on r.db
CancelOrder(p, id) ==
    /\ id <= NextId
    /\ cancelId' = [cancelId EXCEPT ![p] = id]
    /\ \/ /\ GetByID(orders, id, {OrderStatusOpen}).found
          /\ Cancelling < MaxCancelled
          /\ Accept(p, TRUE)
          /\ pc' = [pc EXCEPT ![p] = "UpdateStatus"]
          /\ UNCHANGED <<ret, matchingOrders, idx, qty>>
       \/ /\ ~GetByID(orders, id, {OrderStatusOpen}).found
          /\ Accept(p, FALSE)
          /\ Return(p, Nil)
       \/ /\ Accept(p, FALSE)
          /\ Return(p, ErrDB)
    /\ UNCHANGED <<unit, result, db, order, txState, txOrders, txWallets, txTrades, ops>>

\* an UPDATE "order" SET status = ? without its WHERE clause
UpdateStatusEveryRow(id, status) ==
    /\ ~OrderLocked(RootDB, id)
    /\ orders' = [i \in DOMAIN orders |-> [orders[i] EXCEPT !.status = status]]

\* UpdateStatus: UPDATE "order" SET status = ? WHERE id = ?, on r.db
UpdateStatus(id, status) ==
    /\ ~OrderLocked(RootDB, id)
    /\ IF id \in DOMAIN orders
       THEN orders' = [orders EXCEPT ![id].status = status]
       ELSE UNCHANGED orders

\* CancelOrder lines 131-135
CancelUpdate(p) ==
    /\ At(p, "UpdateStatus")
    /\ \/ /\ UpdateStatus(cancelId[p], OrderStatusCancelled)
          /\ Return(p, Nil)
       \/ /\ Return(p, ErrDB)
          /\ UNCHANGED orders
    /\ UNCHANGED <<unit, result, wallets, trades, overlaps, order, txState, txOrders, txWallets,
                   txTrades, ops, cancelId>>

\* the handler has written its response; the goroutine ends
Respond(p) ==
    /\ pc[p] = "done"
    /\ pc' = [pc EXCEPT ![p] = "idle"]
    /\ order' = [order EXCEPT ![p] = NoOrder]
    /\ txState' = [txState EXCEPT ![p] = "none"]
    /\ ret' = [ret EXCEPT ![p] = Nil]
    /\ ops' = [ops EXCEPT ![p] = <<>>]
    /\ cancelId' = [cancelId EXCEPT ![p] = 0]
    /\ result' = [result EXCEPT ![p] = NoResult]
    /\ UNCHANGED <<unit, db, overlaps, matchingOrders, idx, qty, txOrders, txWallets,
                   txTrades>>

\* the order a client may post
NewOrder(acc, side, price, quantity, pair) ==
    [NoOrder EXCEPT !.account_id = acc, !.order_type = side, !.price = price,
                    !.quantity = quantity, !.instrument_pair = pair]

\* the orders clients post: every side and price for the accounts that hold
\* both assets, one order per side for the account that does not, and orders
\* that Validate rejects
InvalidOrders == {NewOrder("a1", OrderTypeBuy, 0, 1, BTC_BRL)}
OrderInputs ==
    {NewOrder(acc, side, price, OrderSize[acc], pair) :
        acc \in {"a1", "a2"}, side \in Sides, price \in Prices, pair \in Pairs}
    \cup {NewOrder("a3", side, 100, OrderSize["a3"], BTC_BRL) : side \in Sides}
    \cup InvalidOrders

Next ==
    \E p \in Procs :
        \/ \E o \in OrderInputs : CreateOrder(p, o)
        \/ CheckWalletBalance(p)
        \/ Create(p)
        \/ MatchOrder(p)
        \/ Execute(p)
        \/ UpdateOrder(p)
        \/ UpdateMatching(p)
        \/ Settle(p)
        \/ Commit(p)
        \/ \E id \in OrderIds : CancelOrder(p, id)
        \/ CancelUpdate(p)
        \/ Respond(p)

Spec == Init /\ [][Next]_vars

(* ---------------- one placement against a resting book ----------------- *)
\* a resting SELL order of quantity 1, as Create leaves it
BookMaker(id, acc, price) ==
    [NoOrder EXCEPT !.id = id, !.created_at = id, !.account_id = acc,
                    !.instrument_pair = BTC_BRL, !.order_type = OrderTypeSell,
                    !.price = price, !.quantity = 1, !.remaining_quantity = 1,
                    !.status = OrderStatusOpen]

\* the books three earlier SELL placements of a1 and a2 leave (SELL orders do
\* not match each other, and the placement check reserves nothing)
Books ==
    {[id \in BookIds |-> BookMaker(id, f[id][1], f[id][2])] :
        f \in [BookIds -> {"a1", "a2"} \X Prices]}

\* wallets that cover every order of the book and the placement's cost
BookSeed == (<<"a1", BTC>> :> 3) @@ (<<"a1", BRL>> :> 300)
              @@ (<<"a2", BTC>> :> 3) @@ (<<"a2", BRL>> :> 300)

\* placements that take the whole book, and placements the first maker fills
BookInputs ==
    {NewOrder(acc, OrderTypeBuy, price, quantity, BTC_BRL) :
        acc \in {"a1", "a2"}, price \in Prices, quantity \in {1, 3}}

BookInit ==
    /\ orders \in Books
    /\ wallets = BookSeed
    /\ trades = <<>>
    /\ overlaps = 0
    /\ pc = [p \in Procs |-> "idle"]
    /\ order = [p \in Procs |-> NoOrder]
    /\ matchingOrders = [p \in Procs |-> <<>>]
    /\ idx = [p \in Procs |-> 0]
    /\ qty = [p \in Procs |-> 0]
    /\ txState = [p \in Procs |-> "none"]
    /\ txOrders = [p \in Procs |-> EmptyFn]
    /\ txWallets = [p \in Procs |-> EmptyFn]
    /\ txTrades = [p \in Procs |-> <<>>]
    /\ ret = [p \in Procs |-> Nil]
    /\ ops = [p \in Procs |-> <<>>]
    /\ cancelId = [p \in Procs |-> 0]
    /\ result = [p \in Procs |-> NoResult]
    /\ unit = 1

\* CreateOrder, while no order of this run is placed or being placed
BookCreateOrder(p, o) ==
    /\ Placed = {}
    /\ Pending = 0
    /\ CreateOrder(p, o)

BookNext ==
    \E p \in Procs :
        \/ \E o \in BookInputs : BookCreateOrder(p, o)
        \/ CheckWalletBalance(p)
        \/ Create(p)
        \/ MatchOrder(p)
        \/ Execute(p)
        \/ UpdateOrder(p)
        \/ UpdateMatching(p)
        \/ Settle(p)
        \/ Commit(p)
        \/ \E id \in BookIds : CancelOrder(p, id)
        \/ CancelUpdate(p)
        \/ Respond(p)

BookSpec == BookInit /\ [][BookNext]_vars

(* ------------------------- decimal.Decimal ----------------------------- *)
\* A Decimal of a whole value written with `scale` fraction digits: 100 is
\* "100" with scale 0 and "100.00" with scale 2. (The values of this model
\* are whole; how many digits a price carries is up to who produced it: the
\* request's text, the store's numeric(20,8) column, a repository double.)
NewDecimal(n, scale) == [int |-> n, frac |-> [i \in 1..scale |-> 0]]

RECURSIVE TrimZeros(_)
TrimZeros(frac) ==
    IF frac # <<>> /\ frac[Len(frac)] = 0
    THEN TrimZeros(SubSeq(frac, 1, Len(frac) - 1))
    ELSE frac

\* a String() that writes every digit the value carries
StringKeepsScale(d) == <<d.int, d.frac>>

\* Decimal.String(): plain notation, the fraction's trailing zeros dropped
\* ("100.00" prints as "100", "2.0" as "2")
String(d) == <<d.int, TrimZeros(d.frac)>>

\* decimal.RequireFromString of a string String() wrote
RequireFromString(s) == [int |-> s[1], frac |-> s[2]]

Digit(frac, i) == IF i <= Len(frac) THEN frac[i] ELSE 0

\* Decimal.Cmp for values >= 0: -1, 0 or 1
Cmp(a, b) ==
    IF a.int # b.int THEN (IF a.int < b.int THEN -1 ELSE 1)
    ELSE LET n == IF Len(a.frac) > Len(b.frac) THEN Len(a.frac) ELSE Len(b.frac)
             differ == {i \in 1..n : Digit(a.frac, i) # Digit(b.frac, i)}
         IN IF differ = {} THEN 0
            ELSE LET i == CHOOSE x \in differ : \A y \in differ : x <= y
                 IN IF Digit(a.frac, i) < Digit(b.frac, i) THEN -1 ELSE 1

GreaterThan(a, b) == Cmp(a, b) = 1

(* ----------------------- the query use cases --------------------------- *)
\* a query that returns only the orders of the first account
GetOpenOrdersOfOneAccount(rows, instrumentPair) ==
    {rows[id] : id \in {i \in DOMAIN rows :
        /\ rows[i].instrument_pair = instrumentPair
        /\ rows[i].status = OrderStatusOpen
        /\ rows[i].account_id = "a1"}}

\* GetOpenOrdersByInstrumentPair: WHERE instrument_pair = ? AND status = 'OPEN',
\* on r.db, no ORDER BY
GetOpenOrdersByInstrumentPair(rows, instrumentPair) ==
    {rows[id] : id \in {i \in DOMAIN rows :
        /\ rows[i].instrument_pair = instrumentPair
        /\ rows[i].status = OrderStatusOpen}}

\* the digits a fetched price may carry, and the ways a result set of rows
\* can come back: in any sequence, each price with any of these scales
Scales == {0, 2}

RECURSIVE Sequences(_)
Sequences(S) ==
    IF S = {} THEN {<<>>}
    ELSE UNION {{<<x>> \o t : t \in Sequences(S \ {x})} : x \in S}

Fetches(S) ==
    UNION {{[i \in DOMAIN sq |-> [sq[i] EXCEPT !.price = NewDecimal(@, scale[sq[i].id])]] :
               scale \in [{o.id : o \in S} -> Scales]} : sq \in Sequences(S)}

\* lines 182-191: bidsMap / asksMap after the loop over the first n orders,
\* as map key -> summed remaining quantity (a missing key reads as zero)
RECURSIVE LevelMap(_, _, _)
LevelMap(fetched, n, isBid) ==
    IF n = 0 THEN EmptyFn
    ELSE LET m == LevelMap(fetched, n - 1, isBid)
             o == fetched[n]
             k == String(o.price)
         IN IF (o.order_type = "BUY") = isBid
            THEN (k :> ((IF k \in DOMAIN m THEN m[k] ELSE 0) + o.remaining_quantity)) @@ m
            ELSE m

\* lines 193-199 (bids) and 207-213 (asks): the map's keys parsed back and
\* sorted, bids with GreaterThan and asks with LessThan as the less function
RECURSIVE Sorted(_, _)
Sorted(prices, isBid) ==
    IF prices = {} THEN <<>>
    ELSE LET first == CHOOSE x \in prices : \A y \in prices :
                         IF isBid THEN ~GreaterThan(y, x) ELSE ~GreaterThan(x, y)
         IN <<first>> \o Sorted(prices \ {first}, isBid)

\* entries whose bids are sorted like the asks
EntriesAscending(m, isBid) ==
    LET prices == Sorted({RequireFromString(k) : k \in DOMAIN m}, FALSE)
    IN [i \in DOMAIN prices |-> [Price |-> prices[i], Quantity |-> m[String(prices[i])]]]

\* lines 200-205 and 214-219: one OrderBookEntry per sorted price
Entries(m, isBid) ==
    LET prices == Sorted({RequireFromString(k) : k \in DOMAIN m}, isBid)
    IN [i \in DOMAIN prices |-> [Price |-> prices[i], Quantity |-> m[String(prices[i])]]]

\* lines 176-221: the OrderBook built from the fetched orders
OrderBook(instrumentPair, fetched) ==
    [InstrumentPair |-> instrumentPair,
     Bids |-> Entries(LevelMap(fetched, Len(fetched), TRUE), TRUE),
     Asks |-> Entries(LevelMap(fetched, Len(fetched), FALSE), FALSE)]

\* the query handler p has its use case's return values
Returned(p, call, arg, fetched, value, err) ==
    /\ result' = [result EXCEPT ![p] = [call |-> call, arg |-> arg, fetched |-> fetched,
                                        value |-> value]]
    /\ Return(p, err)

\* orderUseCase.GetOrderBook: the pair check, one SELECT on r.db, the levels
GetOrderBook(p, instrumentPair) ==
    /\ Accept(p, FALSE)
    /\ IF ~IsValidInstrumentPair(instrumentPair)
       THEN Returned(p, "GetOrderBook", instrumentPair, <<>>, <<>>, ErrInvalidPairFormat)
       ELSE \/ Returned(p, "GetOrderBook", instrumentPair, <<>>, <<>>, ErrDB)
            \/ LET found == GetOpenOrdersByInstrumentPair(orders, instrumentPair)
               IN IF found = {}
                  THEN Returned(p, "GetOrderBook", instrumentPair, <<>>, <<>>, Nil)
                  ELSE \E fetched \in Fetches(found) :
                          Returned(p, "GetOrderBook", instrumentPair, fetched,
                                   <<OrderBook(instrumentPair, fetched)>>, Nil)
    /\ UNCHANGED <<unit, db, order, txState, txOrders, txWallets, txTrades, ops, cancelId>>

\* walletRepository.GetByAccountID: the account's wallet rows, on r.db
GetByAccountID(rows, accountID) ==
    [k \in {w \in DOMAIN rows : w[1] = accountID} |-> rows[k]]

\* accountUseCase.GetAccountBalance: nil when the account has no wallet
GetAccountBalance(p, accountID) ==
    /\ Accept(p, FALSE)
    /\ \/ Returned(p, "GetAccountBalance", accountID, <<>>, <<>>, ErrDB)
       \/ LET found == GetByAccountID(wallets, accountID)
          IN Returned(p, "GetAccountBalance", accountID, <<>>,
                      IF DOMAIN found = {} THEN <<>> ELSE <<found>>, Nil)
    /\ UNCHANGED <<unit, db, order, txState, txOrders, txWallets, txTrades, ops, cancelId>>

(* --------------------------- the HTTP handlers ------------------------- *)
StatusOK == 200
StatusCreated == 201
StatusBadRequest == 400
StatusNotFound == 404
StatusInternalServerError == 500

\* orderHandler.CreateOrder, after the body is decoded: lines 326-342
CreateOrderStatus(err) == IF err # Nil THEN StatusBadRequest ELSE StatusCreated

\* orderHandler.CancelOrder, after the id is parsed: lines 355-360
CancelOrderStatus(err) == IF err # Nil THEN StatusInternalServerError ELSE StatusOK

\* orderHandler.GetOrderBook: lines 375-391 (a response written without
\* WriteHeader carries 200)
GetOrderBookStatus(orderBook, err) ==
    IF err # Nil
    THEN (IF err = ErrInvalidPairFormat THEN StatusBadRequest
          ELSE StatusInternalServerError)
    ELSE IF orderBook = <<>> THEN StatusNotFound
    ELSE StatusOK

\* accountHandler.GetAccountBalance, after the id is parsed: lines 41-50
GetAccountBalanceStatus(walletsFound, err) ==
    IF err # Nil THEN StatusInternalServerError
    ELSE IF walletsFound = <<>> THEN StatusNotFound
    ELSE StatusOK

\* the status code of the response the handler of p writes, its use case
\* having returned
StatusCode(p) ==
    IF result[p].call = "GetOrderBook" THEN GetOrderBookStatus(result[p].value, ret[p])
    ELSE IF result[p].call = "GetAccountBalance"
         THEN GetAccountBalanceStatus(result[p].value, ret[p])
    ELSE IF order[p] # NoOrder THEN CreateOrderStatus(ret[p])
    ELSE CancelOrderStatus(ret[p])

(* ------------- placements at the bounds of Validate ------------------ *)
\* prices and quantities on both sides of every bound Validate tests, sides
\* and pairs it accepts and rejects, for every account of the seed
EntryPrices == {-1, 0, 100, MaxPrice, MaxPrice + 1}
EntryQuantities == {-1, 0, 1, 2, MaxQuantity, MaxQuantity + 1}
EntrySides == Sides \cup {"HOLD", ""}
BRL_BTC == BRL \o <<"_">> \o BTC
EntryPairs == {BTC_BRL, BRL_BTC, BTC \o BRL, <<"_">> \o BRL, BTC \o <<"_">>,
               BTC_BRL \o <<"_">> \o BTC, <<"_">>, <<>>}

\* (left out are the orders of MaxPrice and MaxQuantity together: their
\* value, MaxPrice * MaxQuantity, is outside the integers of the model, while
\* decimal.Decimal has no such limit)
EntryInputs ==
    {NewOrder(acc, side, price, quantity, pair) :
        acc \in Accounts, side \in EntrySides, price \in EntryPrices,
        quantity \in EntryQuantities, pair \in EntryPairs}
    \ {NewOrder(acc, side, MaxPrice, MaxQuantity, pair) :
        acc \in Accounts, side \in EntrySides, pair \in EntryPairs}

\* CreateOrder on an empty book, one placement at a time
EntryCreateOrder(p) ==
    /\ pc[p] = "idle"
    /\ Placed = {}
    /\ Pending = 0
    /\ \E o \in EntryInputs : CreateOrder(p, o)

EntryNext ==
    \E p \in Procs :
        \/ EntryCreateOrder(p)
        \/ CheckWalletBalance(p)
        \/ Create(p)
        \/ MatchOrder(p)
        \/ Commit(p)
        \/ Respond(p)

EntrySpec == Init /\ [][EntryNext]_vars

(* ---------------------- queries over a resting book -------------------- *)
\* a resting order of quantity 2: untouched, or with 1 already traded
ViewOrder(id, acc, side, price, status) ==
    [id |-> id, account_id |-> acc, instrument_pair |-> BTC_BRL, order_type |-> side,
     price |-> price, quantity |-> 2,
     remaining_quantity |-> IF status = OrderStatusOpen THEN 2 ELSE 1,
     status |-> status, created_at |-> id]

\* every book of three such orders
ViewBooks ==
    {[id \in BookIds |-> ViewOrder(id, f[id][1], f[id][2], f[id][3], f[id][4])] :
        f \in [BookIds -> {"a1", "a2"} \X Sides \X Prices
                          \X {OrderStatusOpen, OrderStatusPartial}]}

\* the pairs asked for: the book's, one without orders, one ill-formed
ViewPairs == {BTC_BRL, BRL_BTC, BTC \o BRL}
\* the accounts asked for: the seeded ones and one without a wallet
ViewAccounts == Accounts \cup {"a4"}

ViewInit ==
    /\ orders \in ViewBooks
    /\ wallets = Seed
    /\ trades = <<>>
    /\ overlaps = 0
    /\ pc = [p \in Procs |-> "idle"]
    /\ order = [p \in Procs |-> NoOrder]
    /\ matchingOrders = [p \in Procs |-> <<>>]
    /\ idx = [p \in Procs |-> 0]
    /\ qty = [p \in Procs |-> 0]
    /\ txState = [p \in Procs |-> "none"]
    /\ txOrders = [p \in Procs |-> EmptyFn]
    /\ txWallets = [p \in Procs |-> EmptyFn]
    /\ txTrades = [p \in Procs |-> <<>>]
    /\ ret = [p \in Procs |-> Nil]
    /\ ops = [p \in Procs |-> <<>>]
    /\ cancelId = [p \in Procs |-> 0]
    /\ result = [p \in Procs |-> NoResult]
    /\ unit = 1

ViewNext ==
    \E p \in Procs :
        \/ \E instrumentPair \in ViewPairs : GetOrderBook(p, instrumentPair)
        \/ \E accountID \in ViewAccounts : GetAccountBalance(p, accountID)
        \/ Respond(p)

ViewSpec == ViewInit /\ [][ViewNext]_vars

(* ------------- amounts finer than the columns' eight digits ------------ *)
\* decimal.NewFromString takes a price or quantity of any number of fractional
\* digits and Validate does not look at them, while every column is
\* DECIMAL(20,8). In the runs below the columns hold the multiples of
\* SubUnits, and a request's price or quantity may lie between two of them as
\* one with a ninth fractional digit does.
SubUnits == 4

\* both accounts hold both assets, in amounts the columns can hold
ScaleSeed == (<<"a1", BTC>> :> 2 * SubUnits) @@ (<<"a1", BRL>> :> 20 * SubUnits)
               @@ (<<"a2", BTC>> :> 2 * SubUnits) @@ (<<"a2", BRL>> :> 20 * SubUnits)

\* the requests: a price and a quantity the columns can hold, a price they
\* cannot, and the quantities of a quarter and of half the columns' step; and
\* orders of the pair that trades the two assets the other way round
ScaleAccounts == {"a1", "a2"}
ScalePrices == {2 * SubUnits - 1, 2 * SubUnits}
ScaleQuantities == {SubUnits \div 4, SubUnits \div 2, SubUnits}
ScaleInputs ==
    {NewOrder(a, t, pr, q, BTC_BRL) :
        a \in ScaleAccounts, t \in Sides, pr \in ScalePrices, q \in ScaleQuantities}
    \cup {NewOrder(a, t, 2 * SubUnits, SubUnits, BRL \o <<"_">> \o BTC) :
             a \in ScaleAccounts, t \in Sides}

ScaleInit ==
    /\ orders = EmptyFn
    /\ wallets = ScaleSeed
    /\ trades = <<>>
    /\ overlaps = 0
    /\ pc = [p \in Procs |-> "idle"]
    /\ order = [p \in Procs |-> NoOrder]
    /\ matchingOrders = [p \in Procs |-> <<>>]
    /\ idx = [p \in Procs |-> 0]
    /\ qty = [p \in Procs |-> 0]
    /\ txState = [p \in Procs |-> "none"]
    /\ txOrders = [p \in Procs |-> EmptyFn]
    /\ txWallets = [p \in Procs |-> EmptyFn]
    /\ txTrades = [p \in Procs |-> <<>>]
    /\ ret = [p \in Procs |-> Nil]
    /\ ops = [p \in Procs |-> <<>>]
    /\ cancelId = [p \in Procs |-> 0]
    /\ result = [p \in Procs |-> NoResult]
    /\ unit = SubUnits

\* no request is in flight: the requests of these runs come one after another
Quiet == \A q \in Procs : pc[q] = "idle"

ScaleCreateOrder(p) ==
    /\ Quiet
    /\ \E o \in ScaleInputs : CreateOrder(p, o)

ScaleCancelOrder(p) ==
    /\ Quiet
    /\ \E id \in OrderIds : CancelOrder(p, id)

ScaleNext ==
    \E p \in Procs :
        \/ ScaleCreateOrder(p)
        \/ CheckWalletBalance(p)
        \/ Create(p)
        \/ MatchOrder(p)
        \/ Execute(p)
        \/ UpdateOrder(p)
        \/ UpdateMatching(p)
        \/ Settle(p)
        \/ Commit(p)
        \/ ScaleCancelOrder(p)
        \/ CancelUpdate(p)
        \/ Respond(p)

ScaleSpec == ScaleInit /\ [][ScaleNext]_vars

(* ------------------------------ properties ----------------------------- *)
\* the goroutine that takes the step
Mover(p) == pc'[p] # pc[p] \/ ops'[p] # ops[p]

\* CreateOrder has inserted the taker order and has not returned yet
TakerCreated(p) ==
    pc[p] \in {"GetMatchingOrders", "Execute", "updateOrder", "updateMatching",
               "settle", "Commit"}

\* C1: placement is all-or-nothing. Once the taker order is created, no step of
\* CreateOrder other than its successful tx.Commit() changes a persisted row
\* (order, wallet or trade), and when CreateOrder returns an error nothing the
\* placement wrote is left to become persistent: the taker row, its trades
\* and every maker and wallet update are gone, those of matches that had
\* succeeded earlier in the same placement included.
C1_PlacementAllOrNothing ==
    [][\A p \in Procs :
          (Mover(p) /\ TakerCreated(p)
                    /\ ~(pc[p] = "Commit" /\ pc'[p] = "done" /\ ret'[p] = Nil))
          => /\ db' = db
             /\ (pc'[p] = "done" =>
                    /\ ret'[p] # Nil
                    /\ txOrders'[p] = EmptyFn
                    /\ txWallets'[p] = EmptyFn
                    /\ txTrades'[p] = <<>>
                    /\ order'[p].id \notin DOMAIN orders')]_vars

\* C1 witness: a placement of quantity 2 whose first match succeeded fails in
\* its second match on a wallet the counterparty does not have, and returns
\* with no order row touched and no trade persisted.
C1_FailedInSecondMatch ==
    \E p \in Procs :
        /\ pc[p] = "done"
        /\ ret[p] = ErrUpdateBalance
        /\ order[p].quantity = 2
        /\ order[p].remaining_quantity = 0
        /\ trades = <<>>
        /\ wallets = Seed
        /\ Cardinality(DOMAIN orders) = 2
        /\ \A i \in DOMAIN orders : /\ orders[i].status = OrderStatusOpen
                                    /\ orders[i].remaining_quantity = orders[i].quantity

\* C2: no wallet balance is ever below zero.
C2_BalancesNonNegative == \A k \in DOMAIN wallets : wallets[k] >= 0

\* C3: a debit of more than the wallet holds, or from a wallet that does not
\* exist, is an error: whenever settle is about to debit a wallet that is
\* missing or holds less than the amount, SubtractFromBalance returns an error.
C3_DebitRejectsOverdraft ==
    \A p \in Procs :
        (pc[p] = "settle" /\ Len(ops[p]) \in {0, 2}) =>
            LET call == SettleCalls(order[p], matchingOrders[p][idx[p]], qty[p])[Len(ops[p]) + 1]
                rows == WalletRows(p)
                wallet == GetByAccountAndAsset(rows, call.account, call.asset)
            IN (~wallet.found \/ wallet.balance < call.amount)
                  => SubtractFromBalance(rows, call.account, call.asset, call.amount).err # Nil

\* the maker the placement of p is trading against
Maker(p) == matchingOrders[p][idx[p]]

Last(sq) == sq[Len(sq)]

Abs(n) == IF n < 0 THEN 0 - n ELSE n

\* C4: a trade executes at the maker's limit price. The trade row a placement
\* inserts carries the price of the resting order it matched (that row's price
\* in the table), whatever the taker's limit is, and each quote-asset leg of
\* that trade's settlement is called with, and moves, exactly maker price
\* times the executed quantity; for a BUY taker and for a SELL taker alike.
C4_TradeAtMakerPrice ==
    [][\A p \in Procs :
          /\ Len(txTrades'[p]) > Len(txTrades[p]) =>
                /\ Last(txTrades'[p]).price = Maker(p).price
                /\ Last(txTrades'[p]).price = OrderRows(p)[Maker(p).id].price
                /\ Last(txTrades'[p]).quantity = qty'[p]
          /\ (pc[p] = "settle" /\ Len(ops'[p]) > Len(ops[p])
                               /\ Last(ops'[p]).asset = BRL) =>
                LET call == Last(ops'[p])
                    k == <<call.account, call.asset>>
                IN /\ call.amount = Maker(p).price * qty[p]
                   /\ call.amount = Last(txTrades[p]).price * Last(txTrades[p]).quantity
                   /\ pc'[p] # "done" =>
                         Abs(txWallets'[p][k] - WalletRows(p)[k]) = Maker(p).price * qty[p]
      ]_vars

\* C4 witness: a BUY taker whose limit is above its maker's price has just
\* debited the buyer's quote leg, while the table holds a trade a SELL taker
\* made at its maker's higher price.
C4_PricesDiffer ==
    \E p \in Procs :
        /\ pc[p] = "settle"
        /\ Len(ops[p]) = 3
        /\ order[p].order_type = OrderTypeBuy
        /\ order[p].price > Maker(p).price
        /\ \E i \in DOMAIN trades :
              /\ orders[trades[i].seller_order_id].created_at
                    > orders[trades[i].buyer_order_id].created_at
              /\ trades[i].price > orders[trades[i].seller_order_id].price

\* C5: settle makes its wallet calls in the fixed order debit base from the
\* seller, credit base to the buyer, debit quote from the buyer, credit quote
\* to the seller (buyer being the owner of the BUY order, taker or maker), with
\* quantity qty for the base legs and maker price * qty for the quote legs. It
\* goes on past settle only after all four, makes no fifth, and a call that
\* fails is the last one: CreateOrder returns its error.
C5_SettleOrder ==
    [][\A p \in Procs :
          /\ Len(ops'[p]) > Len(ops[p]) =>
                LET buy == CHOOSE x \in {order[p], Maker(p)} : x.order_type = OrderTypeBuy
                    sell == CHOOSE x \in {order[p], Maker(p)} : x.order_type = OrderTypeSell
                    total == Maker(p).price * qty[p]
                    n == Len(ops'[p])
                IN /\ pc[p] = "settle"
                   /\ ops'[p] = Append(ops[p], Last(ops'[p]))
                   /\ n = 1 => Last(ops'[p]) = [isAdd |-> FALSE, account |-> sell.account_id,
                                                asset |-> BTC, amount |-> qty[p]]
                   /\ n = 2 => Last(ops'[p]) = [isAdd |-> TRUE, account |-> buy.account_id,
                                                asset |-> BTC, amount |-> qty[p]]
                   /\ n = 3 => Last(ops'[p]) = [isAdd |-> FALSE, account |-> buy.account_id,
                                                asset |-> BRL, amount |-> total]
                   /\ n = 4 => Last(ops'[p]) = [isAdd |-> TRUE, account |-> sell.account_id,
                                                asset |-> BRL, amount |-> total]
                   /\ n <= 4
                   /\ (n < 4 /\ pc'[p] # "settle") => (pc'[p] = "done" /\ ret'[p] # Nil)
                   /\ (n = 4) => pc'[p] # "settle"
          /\ (pc[p] = "settle" /\ pc'[p] \notin {"settle", "done"}) => Len(ops'[p]) = 4
          /\ (Mover(p) /\ pc[p] # "settle" /\ ops'[p] # ops[p]) => ops'[p] = <<>>
      ]_vars

\* C5 witness: the second settlement of a SELL placement stopped at its second
\* call (the credit of base to a buyer that has no base wallet), after the
\* first settlement had gone through all four.
C5_StoppedAtSecondCall ==
    \E p \in Procs :
        /\ pc[p] = "done"
        /\ ret[p] = ErrUpdateBalance
        /\ Len(ops[p]) = 2
        /\ order[p].order_type = OrderTypeSell
        /\ order[p].remaining_quantity = 0
        /\ order[p].quantity = 2

\* x is a better match than y for a taker: lower price for a BUY taker, higher
\* for a SELL taker, and at equal price the earlier arrival
Better(x, y, takerIsBuy) ==
    \/ (takerIsBuy /\ x.price < y.price)
    \/ (~takerIsBuy /\ x.price > y.price)
    \/ (x.price = y.price /\ x.created_at < y.created_at)

\* row r is an eligible maker for taker o
Eligible(r, o) ==
    /\ r.instrument_pair = o.instrument_pair
    /\ r.order_type # o.order_type
    /\ r.status \in {OrderStatusOpen, OrderStatusPartial}
    /\ r.account_id # o.account_id
    /\ IF o.order_type = OrderTypeBuy THEN r.price <= o.price ELSE r.price >= o.price

\* C6: price-time priority within one placement. The makers a placement
\* fetches are exactly the eligible rows its transaction sees, each before
\* every maker it is better than (best price first, then earliest arrival),
\* and the placement trades against a maker only when every maker ahead of it
\* in that order has no remaining quantity left.
C6_PriceTimePriority ==
    [][\A p \in Procs :
          /\ (pc[p] = "GetMatchingOrders" /\ pc'[p] \in {"Execute", "Commit"}) =>
                LET found == matchingOrders'[p]
                    o == order[p]
                IN /\ {found[i] : i \in DOMAIN found}
                        = {OrderRows(p)[id] : id \in {i \in DOMAIN OrderRows(p) :
                                                        Eligible(OrderRows(p)[i], o)}}
                   /\ \A i, j \in DOMAIN found :
                         i < j => Better(found[i], found[j], o.order_type = OrderTypeBuy)
          /\ Len(txTrades'[p]) > Len(txTrades[p]) =>
                \A i \in 1..(idx[p] - 1) : matchingOrders[p][i].remaining_quantity = 0
      ]_vars

\* C6 witness: a placement is trading against its second maker, which arrived
\* before the first but at a worse price.
C6_BetterPriceBeforeOlder ==
    \E p \in Procs :
        /\ pc[p] = "updateOrder"
        /\ idx[p] = 2
        /\ matchingOrders[p][1].created_at > matchingOrders[p][2].created_at
        /\ matchingOrders[p][1].price # matchingOrders[p][2].price
        /\ matchingOrders[p][1].remaining_quantity = 0

\* every trade row there is, committed or not, with the order rows its
\* transaction sees
TradeViews ==
    {<<trades[i], orders>> : i \in DOMAIN trades}
    \cup UNION {{<<txTrades[p][i], OrderRows(p)>> : i \in DOMAIN txTrades[p]} : p \in Procs}

\* C8: no trade is between two orders of one account.
C8_NoSelfTrade ==
    \A tv \in TradeViews :
        tv[2][tv[1].buyer_order_id].account_id # tv[2][tv[1].seller_order_id].account_id

\* C8 witness: a placement has traded with another account's order while an
\* open order of its own account rests on the opposite side at a price that is
\* eligible and better than the one it traded at.
C8_OwnOrderPassedOver ==
    \E p \in Procs :
        /\ txTrades[p] # <<>>
        /\ \E i \in DOMAIN orders :
              /\ orders[i].account_id = order[p].account_id
              /\ orders[i].order_type # order[p].order_type
              /\ orders[i].status = OrderStatusOpen
              /\ IF order[p].order_type = OrderTypeBuy
                 THEN orders[i].price < Last(txTrades[p]).price
                 ELSE orders[i].price > Last(txTrades[p]).price

RECURSIVE TradedQuantity(_, _)
\* sum of the quantities of the trades of tr that reference order id
TradedQuantity(tr, id) ==
    IF tr = <<>> THEN 0
    ELSE (IF id \in {tr[1].buyer_order_id, tr[1].seller_order_id} THEN tr[1].quantity ELSE 0)
         + TradedQuantity(Tail(tr), id)

\* C9: no order is matched beyond its quantity: the committed trades that
\* reference an order sum to at most its quantity, and its remaining quantity
\* is its quantity less that sum.
C9_NoDoubleMatching ==
    \A id \in DOMAIN orders :
        /\ TradedQuantity(trades, id) <= orders[id].quantity
        /\ orders[id].remaining_quantity = orders[id].quantity - TradedQuantity(trades, id)

\* C10: CANCELLED is written only to an order that is OPEN when it is written.
C10_CancelOnlyOpen ==
    [][\A id \in DOMAIN orders :
          (orders'[id].status = OrderStatusCancelled /\ orders[id].status # OrderStatusCancelled)
             => orders[id].status = OrderStatusOpen]_vars

\* the prices of a list of orders, in the list's order
PricesOf(found) == [i \in DOMAIN found |-> found[i].price]

\* a BUY placement at limit 100 has fetched three makers, two at 100 and one at 99
C7_Case(p) ==
    /\ order[p].order_type = OrderTypeBuy
    /\ order[p].price = 100
    /\ Len(matchingOrders[p]) = 3
    /\ Cardinality({i \in 1..3 : matchingOrders[p][i].price = 100}) = 2
    /\ Cardinality({i \in 1..3 : matchingOrders[p][i].price = 99}) = 1

\* C7 (as the code has it): for a BUY taker at limit 100 with eligible SELL
\* makers at 99, 100 (older) and 100 (newer), the makers are returned in the
\* order 99, 100 (older), 100 (newer), and are matched in that order.
C7_BestPriceFirst ==
    \A p \in Procs :
        C7_Case(p) =>
            /\ PricesOf(matchingOrders[p]) = <<99, 100, 100>>
            /\ matchingOrders[p][2].created_at < matchingOrders[p][3].created_at
            /\ \A i \in 1..(idx[p] - 1) : matchingOrders[p][i].remaining_quantity = 0

\* C7 witness: the placement is settling with the third of the three makers,
\* the newer one at 100; the maker at 99 arrived last of all.
C7_ThirdMakerMatched ==
    \E p \in Procs :
        /\ C7_Case(p)
        /\ pc[p] = "settle"
        /\ idx[p] = 3
        /\ \A i \in 1..3 : matchingOrders[p][i].price = 99 =>
              \A j \in 1..3 : matchingOrders[p][j].created_at <= matchingOrders[p][i].created_at

\* C7 as stated: the makers are returned in the order 100 (older), 100 (newer), 99.
C7_AsStated ==
    \A p \in Procs :
        C7_Case(p) =>
            /\ PricesOf(matchingOrders[p]) = <<100, 100, 99>>
            /\ matchingOrders[p][1].created_at < matchingOrders[p][2].created_at

C12_FilledIsTerminal ==
    [][\A id \in DOMAIN orders :
          orders[id].status = OrderStatusFilled =>
             /\ orders'[id] = orders[id]
             /\ TradedQuantity(trades', id) = TradedQuantity(trades, id)]_vars

\* C13: CANCELLED is permanent: a step leaves every CANCELLED order's row as it
\* is and adds no trade that references it.
C13_CancelledIsPermanent ==
    [][\A id \in DOMAIN orders :
          orders[id].status = OrderStatusCancelled =>
             /\ orders'[id] = orders[id]
             /\ TradedQuantity(trades', id) = TradedQuantity(trades, id)]_vars

\* the step is goroutine p taking a CancelOrder request
CancelCalled(p) == pc[p] = "idle" /\ cancelId'[p] # cancelId[p]

\* C14: CancelOrder of an id that has no row, or whose row is not OPEN, ends
\* with its lookup: unless the store fails, it returns no error, makes no
\* update, and leaves every order, trade and balance as it was.
C14_CancelNonOpenIsNoOp ==
    [][\A p \in Procs :
          (/\ CancelCalled(p)
           /\ (cancelId'[p] \notin DOMAIN orders
                 \/ orders[cancelId'[p]].status # OrderStatusOpen)
           /\ ret'[p] # ErrDB)
          => /\ pc'[p] = "done"
             /\ ret'[p] = Nil
             /\ db' = db
             /\ UNCHANGED <<txOrders, txWallets, txTrades>>]_vars

\* C14 witness: CancelOrder has returned no error for an order that is
\* PARTIALLY_FILLED, and the order is still PARTIALLY_FILLED.
C14_PartialStaysInBook ==
    \E p \in Procs :
        /\ pc[p] = "done"
        /\ ret[p] = Nil
        /\ cancelId[p] \in DOMAIN orders
        /\ orders[cancelId[p]].status = OrderStatusPartial

\* C15: matchOrder stops at the maker that fills the taker. It goes on to
\* another Execute only while the taker has remaining quantity; once the
\* taker's remaining quantity is zero it leaves the loop, and the makers
\* fetched after the one that filled it have no trade and no update in the
\* placement's transaction.
C15_StopsWhenFilled ==
    [][\A p \in Procs :
          (pc[p] = "settle" /\ pc'[p] \in {"Execute", "Commit"}) =>
             /\ pc'[p] = "Execute" => order[p].remaining_quantity > 0
             /\ order[p].remaining_quantity = 0 =>
                   /\ pc'[p] = "Commit"
                   /\ \A j \in (idx[p] + 1)..Len(matchingOrders[p]) :
                         /\ matchingOrders[p][j].id \notin DOMAIN txOrders'[p]
                         /\ TradedQuantity(txTrades'[p], matchingOrders[p][j].id) = 0
                         /\ matchingOrders[p][j].remaining_quantity > 0]_vars

\* C15 witness: a placement is about to commit, filled, with a single trade,
\* while another eligible maker that arrived before it is still OPEN and
\* untouched by it.
C15_MakerLeftOver ==
    \E p \in Procs :
        /\ pc[p] = "Commit"
        /\ order[p].remaining_quantity = 0
        /\ Len(txTrades[p]) = 1
        /\ \E i \in DOMAIN orders :
              /\ Eligible(orders[i], order[p])
              /\ orders[i].created_at < order[p].created_at
              /\ i \notin DOMAIN txOrders[p]

\* the statements of matchOrder
InMatchOrder(p) ==
    pc[p] \in {"GetMatchingOrders", "Execute", "updateOrder", "updateMatching", "settle"}

\* settle's next wallet call is on a wallet that does not exist
NextCallFails(p) ==
    /\ pc[p] = "settle"
    /\ LET call == SettleCalls(order[p], Maker(p), qty[p])[Len(ops[p]) + 1]
       IN <<call.account, call.asset>> \notin DOMAIN WalletRows(p)

\* C16: matchOrder aborts at the first error and hands it to CreateOrder. A
\* placement that leaves matchOrder other than towards Commit has returned an
\* error; a failed matching query is followed by no trade and no wallet call;
\* a wallet call that cannot succeed is the placement's last step, its error
\* is what CreateOrder returns, and no later maker is tried.
C16_AbortsAtFirstError ==
    [][\A p \in Procs :
          (Mover(p) /\ InMatchOrder(p)) =>
             /\ pc'[p] \in {"done", "Commit"} \/ InMatchOrder(p)'
             /\ pc'[p] = "done" =>
                   /\ ret'[p] # Nil
                   /\ Len(txTrades'[p]) = 0
                   /\ Len(ops'[p]) <= Len(ops[p]) + 1
             /\ (pc[p] = "GetMatchingOrders" /\ pc'[p] = "done") =>
                   (ret'[p] = ErrDB /\ ops'[p] = <<>>)
             /\ NextCallFails(p) =>
                   (pc'[p] = "done" /\ ret'[p] \in {ErrUpdateBalance, ErrDB})]_vars

\* C16 witness: Execute failed on the first of two eligible makers (a credit to
\* a wallet that does not exist), the placement returned that error, and the
\* second maker was never tried.
C16_FailedOnFirstMaker ==
    \E p \in Procs :
        /\ pc[p] = "done"
        /\ ret[p] = ErrUpdateBalance
        /\ order[p].quantity = 2
        /\ order[p].remaining_quantity = 1
        /\ Cardinality({i \in DOMAIN orders : Eligible(orders[i], order[p])}) = 2

\* CreateOrder is called by p with the order it holds after the step
PlacementCalled(p) == pc[p] = "idle" /\ order'[p] # NoOrder

\* one separator, with something on both sides of it
PairWellFormed(pair) ==
    \E i \in 2..(Len(pair) - 1) :
        pair[i] = "_" /\ \A j \in DOMAIN pair \ {i} : pair[j] # "_"

\* the checks in the order the claim lists them, each with its error
ValidateChecks(o) ==
    << <<o.price > 0, ErrInvalidPrice>>,
       <<o.quantity > 0, ErrInvalidQuantity>>,
       <<o.quantity <= MaxQuantity, ErrMaxQuantity>>,
       <<o.price <= MaxPrice, ErrMaxPrice>>,
       <<o.order_type \in {"BUY", "SELL"}, ErrInvalidOrderType>>,
       <<PairWellFormed(o.instrument_pair), ErrInvalidPairFormat>> >>

FirstFailure(o) ==
    LET c == ValidateChecks(o)
        failing == {i \in DOMAIN c : ~c[i][1]}
    IN IF failing = {} THEN Nil
       ELSE c[CHOOSE i \in failing : \A j \in failing : i <= j][2]

\* C17: Order.Validate applies its six checks in the listed order (price > 0,
\* quantity > 0, quantity <= MaxQuantity, price <= MaxPrice, side is BUY or
\* SELL, pair is two non-empty parts around one '_'), answers with the error of
\* the first check that fails, the six errors being distinct, and with no
\* error when all pass; the call changes no stored row and writes nothing.
C17_ValidateCheckOrder ==
    [][\A p \in Procs : PlacementCalled(p) =>
          LET o == order'[p]
              e == FirstFailure(o)
          IN /\ Validate(o) = e
             /\ e # Nil => pc'[p] = "done" /\ ret'[p] = e
             /\ e = Nil => pc'[p] = "checkWalletBalance" /\ ret'[p] = Nil
             /\ Cardinality({ValidateChecks(o)[i][2] : i \in 1..6} \cup {Nil}) = 7
             /\ db' = db
             /\ UNCHANGED <<txOrders, txWallets, txTrades>>]_vars

\* an order over both upper bounds is answered with the quantity's error
C17_QuantityErrorWins ==
    \E p \in Procs :
        /\ pc[p] = "done"
        /\ ret[p] = ErrMaxQuantity
        /\ order[p].price > MaxPrice
        /\ order[p].quantity > MaxQuantity

\* C18: the coverage of a BUY is price * quantity of the quote asset (the
\* pair's part after '_'), that of a SELL is quantity of the base asset (the
\* part before '_').
C18_RequiredCoverage ==
    \A p \in Procs : pc[p] = "checkWalletBalance" =>
        LET o == order[p]
            pair == o.instrument_pair
            required == GetRequiredAssetAndAmount(o)
        IN \E i \in DOMAIN pair :
              /\ pair[i] = "_"
              /\ IF o.order_type = "BUY"
                 THEN required = <<SubSeq(pair, i + 1, Len(pair)), o.price * o.quantity>>
                 ELSE required = <<SubSeq(pair, 1, i - 1), o.quantity>>

\* a BUY on the pair R_B is about to be checked against 200 of B
C18_BuyCoveredInQuote ==
    \E p \in Procs :
        /\ pc[p] = "checkWalletBalance"
        /\ order[p].order_type = "BUY"
        /\ order[p].instrument_pair = BRL_BTC
        /\ GetRequiredAssetAndAmount(order[p]) = <<BTC, 200>>

\* the placement of p ends with an error and nothing written
Rejected(p) ==
    /\ pc'[p] = "done"
    /\ ret'[p] # Nil
    /\ db' = db
    /\ txOrders'[p] = EmptyFn /\ txWallets'[p] = EmptyFn /\ txTrades'[p] = <<>>

\* C19: CreateOrder ends with an error, having written nothing, when the
\* order fails validation, when the account has no wallet for the required
\* asset, and when that wallet's balance is strictly less than the required
\* amount; with a balance equal to (or above) the amount the placement goes on
\* to create the order.
C19_RejectionsWriteNothing ==
    [][\A p \in Procs :
          /\ PlacementCalled(p) =>
                /\ db' = db
                /\ UNCHANGED <<txOrders, txWallets, txTrades>>
                /\ Validate(order'[p]) # Nil => Rejected(p)
          /\ (pc[p] = "checkWalletBalance" /\ Mover(p)) =>
                LET required == GetRequiredAssetAndAmount(order[p])
                    k == <<order[p].account_id, required[1]>>
                    rows == WalletRows(p)
                IN /\ txOrders[p] = EmptyFn /\ txWallets[p] = EmptyFn /\ txTrades[p] = <<>>
                   /\ k \notin DOMAIN rows => Rejected(p)
                   /\ (k \in DOMAIN rows /\ rows[k] < required[2]) => Rejected(p)
                   /\ (k \in DOMAIN rows /\ rows[k] >= required[2] /\ ret'[p] # ErrDB) =>
                         /\ pc'[p] = "Create"
                         /\ ret'[p] = Nil
                         /\ db' = db]_vars

\* a placement whose coverage is the whole balance has passed the check
C19_ExactBalanceAccepted ==
    \E p \in Procs :
        /\ pc[p] = "Create"
        /\ LET required == GetRequiredAssetAndAmount(order[p])
               k == <<order[p].account_id, required[1]>>
           IN k \in DOMAIN wallets /\ wallets[k] = required[2]

\* C20: a placement that passed validation and the balance check and whose
\* matching query finds no eligible maker goes straight to the commit, and
\* when that succeeds the placement returns no error and the only change to
\* the store is the new order row, OPEN with remaining == quantity: no trade,
\* no balance and no other order changes.
C20_UnmatchedOrderRests ==
    [][\A p \in Procs :
          /\ ( /\ pc[p] = "GetMatchingOrders" /\ Mover(p)
               /\ \A i \in DOMAIN OrderRows(p) : ~Eligible(OrderRows(p)[i], order[p])
               /\ ret'[p] # ErrDB )
             => /\ pc'[p] = "Commit"
                /\ txTrades'[p] = <<>>
                /\ txWallets'[p] = EmptyFn
                /\ txOrders'[p] = (order[p].id :> order[p])
                /\ db' = db
          /\ (pc[p] = "Commit" /\ Mover(p) /\ txTrades[p] = <<>> /\ ret'[p] = Nil)
             => /\ pc'[p] = "done"
                /\ order[p].id \notin DOMAIN orders
                /\ orders' = (order[p].id :> order[p]) @@ orders
                /\ order[p].status = OrderStatusOpen
                /\ order[p].remaining_quantity = order[p].quantity
                /\ order[p].quantity > 0
                /\ wallets' = wallets
                /\ trades' = trades]_vars

\* an order rests although an order of the other side is in the book: that
\* one does not cross it
C20_RestsBesideOtherSide ==
    \E p \in Procs :
        /\ pc[p] = "done"
        /\ ret[p] = Nil
        /\ order[p].id \in DOMAIN orders
        /\ orders[order[p].id].status = OrderStatusOpen
        /\ trades = <<>>
        /\ \E i \in DOMAIN orders :
              /\ orders[i].order_type # order[p].order_type
              /\ orders[i].status = OrderStatusOpen
              /\ orders[i].account_id # order[p].account_id

\* GetOrderBook has handed a book to the handler of p
BookReturned(p) ==
    pc[p] = "done" /\ result[p].call = "GetOrderBook" /\ result[p].value # <<>>

\* the fetched orders (by position) a side of the book is made of
SideOf(F, isBid) == {i \in DOMAIN F : (F[i].order_type = "BUY") = isBid}

\* sum of the remaining quantities of the fetched orders at positions I
RECURSIVE SumRemaining(_, _)
SumRemaining(F, I) ==
    IF I = {} THEN 0
    ELSE LET i == CHOOSE x \in I : TRUE
         IN F[i].remaining_quantity + SumRemaining(F, I \ {i})

\* the (whole) value of a decimal of this model
ValueOf(d) == d.int

\* C21: for each side GetOrderBook returns exactly one level per distinct
\* price among the fetched orders of that side, its quantity the sum of the
\* remaining quantities of the orders at that price; bid levels come in
\* strictly descending and ask levels in strictly ascending price order.
C21_OneLevelPerPrice ==
    \A p \in Procs : BookReturned(p) =>
        LET F == result[p].fetched
            B == result[p].value[1]
        IN \A isBid \in BOOLEAN :
              LET levels == IF isBid THEN B.Bids ELSE B.Asks
                  side == SideOf(F, isBid)
              IN /\ Len(levels) = Cardinality({ValueOf(F[i].price) : i \in side})
                 /\ \A k \in DOMAIN levels :
                       LET at == {i \in side : ValueOf(F[i].price) = ValueOf(levels[k].Price)}
                       IN at # {} /\ levels[k].Quantity = SumRemaining(F, at)
                 /\ \A k, l \in DOMAIN levels : k < l =>
                       IF isBid THEN ValueOf(levels[k].Price) > ValueOf(levels[l].Price)
                       ELSE ValueOf(levels[k].Price) < ValueOf(levels[l].Price)

\* three bids were fetched and came back as two levels
C21_TwoBidLevelsOfThreeOrders ==
    \E p \in Procs :
        /\ BookReturned(p)
        /\ Cardinality(SideOf(result[p].fetched, TRUE)) = 3
        /\ Len(result[p].value[1].Bids) = 2
        /\ result[p].value[1].Bids[1].Quantity = 4

\* C22 (as stated): the book the use case returns holds every order of the
\* pair that is OPEN or PARTIALLY_FILLED: whenever GetOrderBook returns without
\* error, each such order's side has a level at its price whose quantity
\* includes its remaining quantity.
C22_BookHoldsPartiallyFilled ==
    \A p \in Procs :
        (pc[p] = "done" /\ result[p].call = "GetOrderBook" /\ ret[p] = Nil) =>
            \A id \in DOMAIN orders :
                ( /\ orders[id].instrument_pair = result[p].arg
                  /\ orders[id].status \in {"OPEN", "PARTIALLY_FILLED"} )
                => /\ result[p].value # <<>>
                   /\ LET B == result[p].value[1]
                          levels == IF orders[id].order_type = "BUY" THEN B.Bids ELSE B.Asks
                      IN \E k \in DOMAIN levels :
                            /\ ValueOf(levels[k].Price) = orders[id].price
                            /\ levels[k].Quantity >= orders[id].remaining_quantity

\* C23: levels are keyed by the value of the price. Two fetched orders of one
\* side whose prices are equal in value but written with different scale
\* ("100" and "100.00") are in one and the same level, which has the sum of
\* the quantities at that value and prints its price in canonical form.
C23_EqualPricesOneLevel ==
    \A p \in Procs : BookReturned(p) =>
        LET F == result[p].fetched
            B == result[p].value[1]
        IN \A i, j \in DOMAIN F :
              ( /\ (F[i].order_type = "BUY") = (F[j].order_type = "BUY")
                /\ ValueOf(F[i].price) = ValueOf(F[j].price)
                /\ Len(F[i].price.frac) # Len(F[j].price.frac) )
              => LET isBid == F[i].order_type = "BUY"
                     levels == IF isBid THEN B.Bids ELSE B.Asks
                     at == {k \in DOMAIN levels :
                               ValueOf(levels[k].Price) = ValueOf(F[i].price)}
                     same == {n \in SideOf(F, isBid) :
                                 ValueOf(F[n].price) = ValueOf(F[i].price)}
                 IN /\ Cardinality(at) = 1
                    /\ \A k \in at :
                          /\ levels[k].Quantity = SumRemaining(F, same)
                          /\ levels[k].Quantity
                               >= F[i].remaining_quantity + F[j].remaining_quantity
                          /\ levels[k].Price.frac = <<>>

\* bids fetched as "100" and "100.00" came back as the one level of the side
C23_TwoScalesOneLevel ==
    \E p \in Procs :
        /\ BookReturned(p)
        /\ LET F == result[p].fetched
           IN \E i, j \in SideOf(F, TRUE) :
                 /\ F[i].price = NewDecimal(100, 0)
                 /\ F[j].price = NewDecimal(100, 2)
        /\ Len(result[p].value[1].Bids) = 1

\* GetOrderBook is called by p with the pair it holds after the step
BookCalled(p) == pc[p] = "idle" /\ result'[p].call = "GetOrderBook"

\* C24: GetOrderBook returns ErrInvalidPairFormat, without a query, when the
\* pair is not two non-empty parts around one '_'; it returns no book and no
\* error when the pair has no open order, and the store's error when the
\* query fails; in each of these cases, and in every other, it changes nothing
\* in the store.
C24_BookErrorsAndEmpty ==
    [][\A p \in Procs : BookCalled(p) =>
          LET pair == result'[p].arg
              open == {id \in DOMAIN orders :
                          orders[id].instrument_pair = pair /\ orders[id].status = "OPEN"}
          IN /\ pc'[p] = "done"
             /\ ~PairWellFormed(pair) =>
                   /\ ret'[p] = ErrInvalidPairFormat
                   /\ result'[p].value = <<>>
                   /\ result'[p].fetched = <<>>
             /\ PairWellFormed(pair) => ret'[p] \in {Nil, ErrDB}
             /\ ret'[p] = ErrDB => result'[p].value = <<>>
             /\ (PairWellFormed(pair) /\ open = {} /\ ret'[p] # ErrDB) =>
                   ret'[p] = Nil /\ result'[p].value = <<>>
             /\ (open # {} /\ ret'[p] = Nil) => result'[p].value # <<>>
             /\ db' = db
             /\ UNCHANGED <<txOrders, txWallets, txTrades>>]_vars

\* an ill-formed pair was refused over a store that holds open orders
C24_IllFormedPairRefused ==
    \E p \in Procs :
        /\ pc[p] = "done"
        /\ result[p].call = "GetOrderBook"
        /\ ~PairWellFormed(result[p].arg)
        /\ ret[p] = ErrInvalidPairFormat
        /\ \E id \in DOMAIN orders : orders[id].status = "OPEN"

\* the books that differ from S in nothing but who owns which order, which id
\* it has and when it arrived
AltBooks(S) ==
    {[id \in DOMAIN S |-> [S[pi[id]] EXCEPT !.id = id, !.created_at = id,
                                            !.account_id = owner[id]]] :
        pi \in Permutations(DOMAIN S), owner \in [DOMAIN S -> {"a1", "a2"}]}

\* one way the open orders of book S can be fetched
OneFetch(S, pair) ==
    LET found == GetOpenOrdersByInstrumentPair(S, pair)
        sq == CHOOSE x \in Sequences(found) : TRUE
    IN [i \in DOMAIN sq |-> [sq[i] EXCEPT !.price = NewDecimal(@, 0)]]

\* C25: the levels expose no account or order identity. The book returned
\* for a store equals the book of every store with the same orders by side,
\* price, quantity and status under other owners, other ids and another order
\* of arrival (hence any two such stores get identical levels, however their
\* rows are fetched).
C25_LevelsHideIdentity ==
    \A p \in Procs : (BookReturned(p) /\ DOMAIN orders = BookIds) =>
        \A S \in AltBooks(orders) :
            LET fetched == OneFetch(S, result[p].arg)
            IN /\ fetched # <<>>
               /\ OrderBook(result[p].arg, fetched) = result[p].value[1]

\* a book of orders of both accounts came back as levels
C25_TwoOwnersInOneLevel ==
    \E p \in Procs :
        /\ BookReturned(p)
        /\ LET F == result[p].fetched
           IN \E i, j \in DOMAIN F :
                 /\ F[i].account_id # F[j].account_id
                 /\ F[i].order_type = F[j].order_type
                 /\ ValueOf(F[i].price) = ValueOf(F[j].price)
        /\ Len(result[p].value[1].Bids) + Len(result[p].value[1].Asks) = 1

\* the status the claim gives an order of this quantity and remaining quantity
StatusFor(remaining, quantity) ==
    IF remaining = 0 THEN "FILLED"
    ELSE IF remaining = quantity THEN "OPEN"
    ELSE "PARTIALLY_FILLED"

ClientErrors ==
    {ErrInvalidPrice, ErrInvalidQuantity, ErrMaxQuantity, ErrMaxPrice, ErrInvalidOrderType,
     ErrInvalidPairFormat, ErrWalletNotFound, ErrInsufficientBalance}

\* C29 (as stated): whatever the endpoint, a validation or business failure
\* is answered with 400, an empty result with 404 and a failure of the store
\* with 500.
C29_StatusCodes ==
    \A p \in Procs : pc[p] = "done" =>
        /\ ret[p] \in ClientErrors => StatusCode(p) = 400
        /\ (ret[p] = Nil /\ result[p].call # "" /\ result[p].value = <<>>) =>
              StatusCode(p) = 404
        /\ ret[p] = ErrDB => StatusCode(p) = 500

\* C30: Execute works in the order trade insert, taker update, maker update,
\* balance legs. Each of the first three steps either fails, ending the
\* placement with an error before any later step and before any balance
\* operation, or does its own write and nothing else; the balance operations
\* begin only when the trade and both order rows are written.
C30_ExecuteStepOrder ==
    [][\A p \in Procs : Mover(p) =>
          /\ pc[p] = "Execute" =>
                /\ pc'[p] \in {"updateOrder", "done"}
                /\ ops'[p] = <<>>
                /\ pc'[p] = "done" => ret'[p] # Nil
                /\ pc'[p] = "updateOrder" =>
                      /\ Len(txTrades'[p]) = Len(txTrades[p]) + 1
                      /\ txOrders'[p] = txOrders[p]
                      /\ txWallets'[p] = txWallets[p]
          /\ pc[p] = "updateOrder" =>
                /\ pc'[p] \in {"updateMatching", "done"}
                /\ ops'[p] = <<>>
                /\ pc'[p] = "done" => ret'[p] # Nil
                /\ pc'[p] = "updateMatching" =>
                      /\ txOrders'[p][order[p].id].remaining_quantity
                            = order[p].remaining_quantity
                      /\ \A id \in DOMAIN txOrders'[p] \ {order[p].id} :
                            id \in DOMAIN txOrders[p] /\ txOrders'[p][id] = txOrders[p][id]
                      /\ txTrades'[p] = txTrades[p]
                      /\ txWallets'[p] = txWallets[p]
          /\ pc[p] = "updateMatching" =>
                /\ pc'[p] \in {"settle", "done"}
                /\ ops'[p] = <<>>
                /\ pc'[p] = "done" => ret'[p] # Nil
                /\ pc'[p] = "settle" =>
                      /\ Maker(p).id \in DOMAIN txOrders'[p]
                      /\ txOrders'[p][Maker(p).id].remaining_quantity
                            = Maker(p).remaining_quantity
                      /\ \A id \in DOMAIN txOrders'[p] \ {Maker(p).id} :
                            id \in DOMAIN txOrders[p] /\ txOrders'[p][id] = txOrders[p][id]
                      /\ txTrades'[p] = txTrades[p]
                      /\ txWallets'[p] = txWallets[p]
          /\ pc[p] = "settle" =>
                /\ Len(ops'[p]) = Len(ops[p]) + 1
                /\ pc'[p] # "done" => txOrders'[p] = txOrders[p] /\ txTrades'[p] = txTrades[p]
          /\ (ops'[p] # <<>> /\ ops[p] = <<>>) => pc[p] = "settle"]_vars

\* the trade and the taker's row are written, the maker's row and the
\* balances are not yet
C30_BetweenTheUpdates ==
    \E p \in Procs :
        /\ pc[p] = "updateMatching"
        /\ Len(txTrades[p]) = 1
        /\ txOrders[p][order[p].id].remaining_quantity = order[p].remaining_quantity
        /\ Maker(p).id \notin DOMAIN txOrders[p]
        /\ txWallets[p] = EmptyFn
        /\ ops[p] = <<>>

\* C31: every Execute call of matchOrder gets qty = the smaller of the taker's
\* and the maker's remaining quantity as the two objects carry it at the call,
\* and that qty is greater than zero.
C31_QtyIsPositiveMin ==
    [][\A p \in Procs :
          (pc[p] = "Execute" /\ pc'[p] = "updateOrder") =>
              LET o == order[p]
                  m == Maker(p)
              IN /\ qty'[p] \in {o.remaining_quantity, m.remaining_quantity}
                 /\ qty'[p] <= o.remaining_quantity
                 /\ qty'[p] <= m.remaining_quantity
                 /\ qty'[p] > 0]_vars

\* trade rows, committed or written by a running transaction
AllTrades ==
    {trades[i] : i \in DOMAIN trades}
    \cup UNION {{txTrades[q][i] : i \in DOMAIN txTrades[q]} : q \in Procs}

\* the order row with this id, as the store or a running transaction holds it
RowOf(id) ==
    IF id \in DOMAIN orders THEN orders[id]
    ELSE LET q == CHOOSE r \in Procs : id \in DOMAIN txOrders[r] IN txOrders[q][id]

\* C32: in every trade the buyer order id is that of a BUY order and the seller
\* order id that of a SELL order of the same instrument pair, whichever of the
\* two was the taker.
C32_BuyerBuysSellerSells ==
    \A t \in AllTrades :
        /\ t.buyer_order_id \in AllOrderIds
        /\ t.seller_order_id \in AllOrderIds
        /\ RowOf(t.buyer_order_id).order_type = OrderTypeBuy
        /\ RowOf(t.seller_order_id).order_type = OrderTypeSell
        /\ RowOf(t.buyer_order_id).instrument_pair
              = RowOf(t.seller_order_id).instrument_pair

\* a committed trade whose taker was the seller, beside an order of the other
\* pair
C32_SellerWasTaker ==
    /\ \E i \in DOMAIN trades : trades[i].buyer_order_id < trades[i].seller_order_id
    /\ \E id \in DOMAIN orders : orders[id].instrument_pair # BTC_BRL

\* C33: when persisting an order's new remaining quantity and status fails,
\* updateOrderStatus returns the error (Execute and CreateOrder pass it on)
\* and the status of the order object in memory is not updated; no row changes.
C33_FailedUpdateKeepsStatus ==
    [][\A p \in Procs :
          (pc[p] \in {"updateOrder", "updateMatching"} /\ pc'[p] = "done") =>
              /\ ret'[p] = ErrDB
              /\ order'[p].status = order[p].status
              /\ order'[p] = order[p]
              /\ db' = db]_vars

\* updateOrderStatus(tx, order) has failed after the first trade of a
\* placement: the taker object's remaining quantity is reduced, its status is
\* still the OPEN that CreateOrder gave it
C33_TakerStillOpen ==
    \E p \in Procs :
        /\ pc[p] = "done"
        /\ ret[p] = ErrDB
        /\ order[p].remaining_quantity < order[p].quantity
        /\ order[p].status = OrderStatusOpen

\* C35: fill accounting. When no request is in flight, in runs whose requests
\* came one after another, every order's quantity minus its remaining
\* quantity is the sum of the quantities of the trades that reference it.
C35_FillAccounting ==
    (Quiet /\ overlaps = 0) =>
        \A id \in DOMAIN orders :
            orders[id].quantity - orders[id].remaining_quantity
                = TradedQuantity(trades, id)

\* C36: limit prices are respected. Every trade's price is at most the limit
\* price of its buyer order and at least the limit price of its seller order,
\* as the rows hold them and as the placing request stated the taker's.
C36_LimitsRespected ==
    /\ \A t \in AllTrades :
          /\ t.price <= RowOf(t.buyer_order_id).price
          /\ t.price >= RowOf(t.seller_order_id).price
    /\ \A p \in Procs : \A i \in DOMAIN txTrades[p] :
          IF order[p].order_type = OrderTypeBuy
          THEN txTrades[p][i].price <= order[p].price
          ELSE txTrades[p][i].price >= order[p].price

\* a committed trade strictly inside both limits' range: below the buyer's
\* limit, the seller's limit being the price
C36_BuyerPaysLess ==
    \E i \in DOMAIN trades :
        /\ trades[i].price < orders[trades[i].buyer_order_id].price
        /\ trades[i].price = orders[trades[i].seller_order_id].price

\* C37: the book is never left crossed between different accounts. When no
\* request is in flight, in runs whose placements and cancellations came one
\* after another, no two OPEN or PARTIALLY_FILLED orders of the same pair owned
\* by different accounts are a BUY and a SELL with the BUY's price at or above
\* the SELL's.
C37_BookNotCrossed ==
    (Quiet /\ overlaps = 0) =>
        \A b, s \in DOMAIN orders :
            ~ /\ orders[b].order_type = OrderTypeBuy
              /\ orders[s].order_type = OrderTypeSell
              /\ orders[b].status \in {OrderStatusOpen, OrderStatusPartial}
              /\ orders[s].status \in {OrderStatusOpen, OrderStatusPartial}
              /\ orders[b].instrument_pair = orders[s].instrument_pair
              /\ orders[b].account_id # orders[s].account_id
              /\ orders[b].price >= orders[s].price

\* C38: a resting order can always be settled against. Whenever a trade is
\* being settled, the owners of both orders have a wallet for the base and for
\* the quote asset of the pair, and no placement returns the wallet
\* repository's error for a wallet it found no row of.
C38_CounterpartyHasWallets ==
    \A p \in Procs :
        /\ pc[p] = "settle" =>
              \A acc \in {order[p].account_id, Maker(p).account_id} :
                  \A i \in {1, 3} :
                      <<acc, <<order[p].instrument_pair[i]>>>> \in DOMAIN wallets
        /\ ret[p] # ErrUpdateBalance

\* C39: every transaction CreateOrder begins is finished before it returns:
\* whatever the return path (validation error, balance-check error,
\* order-create error, matching error, success), the transaction has been
\* rolled back or committed when the use case has returned.
C39_TransactionFinished ==
    \A p \in Procs :
        (pc[p] = "done" /\ order[p] # NoOrder) =>
            txState[p] \in {"committed", "rolledback"}

RECURSIVE SumBalances(_, _)
SumBalances(rows, keys) ==
    IF keys = {} THEN 0
    ELSE LET k == CHOOSE x \in keys : TRUE
         IN rows[k] + SumBalances(rows, keys \ {k})

TotalOf(rows, assetSymbol) ==
    SumBalances(rows, {k \in DOMAIN rows : k[2] = assetSymbol})

\* C34: asset conservation. In every committed state the balances of all
\* wallets of an asset add up to the same: no step that changes the committed
\* rows (a placement's commit, a cancellation) creates or destroys an asset.
C34_AssetConservation ==
    [][\A a \in Assets : TotalOf(wallets', a) = TotalOf(wallets, a)]_vars

====
